---- MODULE Spec2Model ----
(***************************************************************************)
(* Model of the pitch-detection session controller (utils/AudioUtils.ts,   *)
(* the AudioUtils singleton), of the note table (constants/Notes.ts) and   *)
(* of the training screen that drives them (components/TrainingScreen).    *)
(*                                                                         *)
(* JavaScript runs one callback at a time: an action of this model is the  *)
(* code that runs between two suspension points (an await of real I/O, a   *)
(* setTimeout, a setInterval tick, a user event).  An await of an async    *)
(* method of AudioUtils whose body has no suspension point of its own      *)
(* (pausePitchDetection, resumePitchDetection) continues in the same       *)
(* macrotask and is part of the calling action.                            *)
(*                                                                         *)
(* Units: volumes in thousandths (0.01 = 10), detector readings in hertz,  *)
(* Detection Window samples in sixths of a hertz (the mean of one, two or  *)
(* three whole-hertz readings is then an integer), catalogue frequencies   *)
(* in hundredths of a hertz.                                               *)
(***************************************************************************)
EXTENDS Integers, Sequences, FiniteSets, Bags, TLC

(* ---------------------------- bounds ---------------------------------- *)
\* intervals the runtime may keep running after the field that held their
\* handle was overwritten
MaxLeaked == 1
\* asynchronous calls and timeouts in flight at once (start, stop and
\* cleanup calls, demonstrations, success figures, scheduled sequences)
MaxTasks == 2
\* mounts of the training screen in one run of the app
MaxMounts == 2
\* cap of the sequence counter of the app context
MaxSequence == 2
\* highest whole-hertz frequency handed to findClosestNote
MaxHertz == 1100
\* length of the event streams fed to the training screen
MaxFeed == 4

Mounts == 1..MaxMounts

(* ------------------------- program constants -------------------------- *)
historySize == 5
minFrequency == 80
maxFrequency == 1200
DefaultVolumeThreshold == 10

Platforms == {"web", "ios", "android"}
\* the tick bodies the code installs with setInterval
Strategies == {"web", "webResume", "native", "enhanced", "simulated"}

\* outcomes of Audio.requestPermissionsAsync(): resolved granted, resolved
\* with another status, rejected
PermissionOutcomes == {"granted", "denied", "exception"}
\* outcomes of navigator.mediaDevices.getUserMedia(): resolved, rejected
MediaOutcomes == {"stream", "exception"}

(* ----------------------------- note table ----------------------------- *)
GUITAR_NOTES ==
  << [name |-> "E2", frequency |-> 8241, audioFile |-> "e2.mp3"],
     [name |-> "F2", frequency |-> 8731, audioFile |-> "f2.mp3"],
     [name |-> "F#2/Gb2", frequency |-> 9250, audioFile |-> "f-2.mp3"],
     [name |-> "G2", frequency |-> 9800, audioFile |-> "g2.mp3"],
     [name |-> "G#2/Ab2", frequency |-> 10383, audioFile |-> "g-2.mp3"],
     [name |-> "A2", frequency |-> 11000, audioFile |-> "a2.mp3"],
     [name |-> "A#2/Bb2", frequency |-> 11654, audioFile |-> "a-2.mp3"],
     [name |-> "B2", frequency |-> 12347, audioFile |-> "b2.mp3"],
     [name |-> "C3", frequency |-> 13081, audioFile |-> "c3.mp3"],
     [name |-> "C#3/Db3", frequency |-> 13859, audioFile |-> "c-3.mp3"],
     [name |-> "D3", frequency |-> 14683, audioFile |-> "d3.mp3"],
     [name |-> "D#3/Eb3", frequency |-> 15556, audioFile |-> "d-3.mp3"],
     [name |-> "E3", frequency |-> 16481, audioFile |-> "e3.mp3"],
     [name |-> "F3", frequency |-> 17461, audioFile |-> "f3.mp3"],
     [name |-> "F#3/Gb3", frequency |-> 18500, audioFile |-> "f-3.mp3"],
     [name |-> "G3", frequency |-> 19600, audioFile |-> "g3.mp3"],
     [name |-> "G#3/Ab3", frequency |-> 20765, audioFile |-> "g-3.mp3"],
     [name |-> "A3", frequency |-> 22000, audioFile |-> "a3.mp3"],
     [name |-> "A#3/Bb3", frequency |-> 23308, audioFile |-> "a-3.mp3"],
     [name |-> "B3", frequency |-> 24694, audioFile |-> "b3.mp3"],
     [name |-> "C4", frequency |-> 26163, audioFile |-> "c4.mp3"],
     [name |-> "C#4/Db4", frequency |-> 27718, audioFile |-> "c-4.mp3"],
     [name |-> "D4", frequency |-> 29366, audioFile |-> "d4.mp3"],
     [name |-> "D#4/Eb4", frequency |-> 31113, audioFile |-> "d-4.mp3"],
     [name |-> "E4", frequency |-> 32963, audioFile |-> "e4.mp3"],
     [name |-> "F4", frequency |-> 34923, audioFile |-> "f4.mp3"],
     [name |-> "F#4/Gb4", frequency |-> 36999, audioFile |-> "f-4.mp3"],
     [name |-> "G4", frequency |-> 39200, audioFile |-> "g4.mp3"],
     [name |-> "G#4/Ab4", frequency |-> 41530, audioFile |-> "g-4.mp3"],
     [name |-> "A4", frequency |-> 44000, audioFile |-> "a4.mp3"],
     [name |-> "A#4/Bb4", frequency |-> 46616, audioFile |-> "a-4.mp3"],
     [name |-> "B4", frequency |-> 49388, audioFile |-> "b4.mp3"],
     [name |-> "C5", frequency |-> 52325, audioFile |-> "c5.mp3"],
     [name |-> "C#5/Db5", frequency |-> 55437, audioFile |-> "c-5.mp3"],
     [name |-> "D5", frequency |-> 58733, audioFile |-> "d5.mp3"],
     [name |-> "D#5/Eb5", frequency |-> 62225, audioFile |-> "d-5.mp3"],
     [name |-> "E5", frequency |-> 65926, audioFile |-> "e5.mp3"],
     [name |-> "F5", frequency |-> 69846, audioFile |-> "f5.mp3"],
     [name |-> "F#5/Gb5", frequency |-> 73999, audioFile |-> "f-5.mp3"],
     [name |-> "G5", frequency |-> 78399, audioFile |-> "g5.mp3"],
     [name |-> "G#5/Ab5", frequency |-> 83061, audioFile |-> "g-5.mp3"],
     [name |-> "A5", frequency |-> 88000, audioFile |-> "a5.mp3"],
     [name |-> "A#5/Bb5", frequency |-> 93233, audioFile |-> "a-5.mp3"],
     [name |-> "B5", frequency |-> 98777, audioFile |-> "b5.mp3"] >>

NoNote == [name |-> "none", table |-> FALSE]

\* a catalogue entry as the callback receives it: the shared object of the
\* table (table = TRUE) as opposed to an object built by the caller
TableNote(i) == [name |-> GUITAR_NOTES[i].name, table |-> TRUE]

Abs(x) == IF x < 0 THEN -x ELSE x

\* |frequency - GUITAR_NOTES[i].frequency| for frequency = n/d hertz, in
\* units of 1/(100 d) hertz
Difference(n, d, i) == Abs(100 * n - d * GUITAR_NOTES[i].frequency)

\* the loop of findClosestNote over the entries lo..hi: closestNote starts
\* at the first entry and a later entry replaces it only when strictly
\* closer, so the loop ends with the first entry of minimal difference; the
\* range is folded by halves, the left half first
RECURSIVE ClosestIn(_, _, _, _)
ClosestIn(n, d, lo, hi) ==
  IF lo = hi
    THEN lo
    ELSE LET mid == (lo + hi) \div 2
             a == ClosestIn(n, d, lo, mid)
             b == ClosestIn(n, d, mid + 1, hi)
         IN IF Difference(n, d, b) < Difference(n, d, a) THEN b ELSE a

ClosestIndex(n, d) == ClosestIn(n, d, 1, Len(GUITAR_NOTES))

\* a search that returns the closest entry however far it is (what
\* NearestOrNone rules out)
closestWithoutTolerance(n, d) == IF n <= 0 THEN 0 ELSE ClosestIndex(n, d)

\* a search that looks up the magnitude of the frequency (what
\* NoneForNonPositive rules out)
closestOfMagnitude(n, d) ==
  LET closest == ClosestIndex(Abs(n), d)
  IN IF 20 * Difference(Abs(n), d, closest) > d * GUITAR_NOTES[closest].frequency
       THEN 0
       ELSE closest

\* findClosestNote(n/d hertz): the index of the note returned, 0 for null
findClosestNote(n, d) ==
  IF n <= 0
    THEN 0
    ELSE LET closest == ClosestIndex(n, d)
         IN IF 20 * Difference(n, d, closest) > d * GUITAR_NOTES[closest].frequency
              THEN 0
              ELSE closest

(* ----------------------- the AudioUtils object ------------------------ *)
\* A value of an interval handle field: null (NoTimer) or the interval the
\* handle denotes, given by the tick body it runs and, for the simulated
\* strategy, the lastNote variable its closure holds.
NoTimer == [kind |-> "none", lastNote |-> "none"]
Interval(kind) == [kind |-> kind, lastNote |-> "none"]

VARIABLES
  platform,   \* Platform.OS, fixed for the process
  webAudio,   \* window.AudioContext exists, fixed for the process
  random,     \* the catalogue indices Math.random() is let to select
  settings,   \* the settings of the app context, as saved by the last Start
  au,         \* the fields of the AudioUtils singleton
  leaked,     \* the bag of intervals the runtime still runs and that no
              \* field of the object references any more
  tasks,      \* the bag of asynchronous calls and timeouts in flight, each
              \* at the suspension point it waits at
  screen,     \* the mounted TrainingScreen (0: the settings screen is shown)
  mounts,     \* number of TrainingScreen mounts so far
  ui,         \* the React state of the mounted TrainingScreen
  currentSequence,  \* the sequence counter of the app context
  obs,        \* what the last step did: the controller operation that
              \* returned, the tick that fired, the callback events delivered
  probe       \* a call of a function of constants/Notes.ts: the function,
              \* its argument and what it returned

vars == <<platform, webAudio, random, settings, au, leaked, tasks, screen, mounts, ui,
          currentSequence, obs, probe>>

appVars == <<screen, mounts, ui, currentSequence>>

\* field initialisers of class AudioUtils; null is 0 for the callback and
\* FALSE for the resource objects
AudioUtilsInit ==
  [ pitchDetectionInterval   |-> NoTimer,
    mobileRecordingInterval  |-> NoTimer,
    onPitchDetected          |-> 0,
    audioContext             |-> FALSE,
    analyser                 |-> FALSE,
    mediaStreamSource        |-> FALSE,
    recordingDataArray       |-> FALSE,
    pitchDetector            |-> FALSE,
    yinDetector              |-> FALSE,
    amdfDetector             |-> FALSE,
    isInitialized            |-> FALSE,
    volumeThreshold          |-> DefaultVolumeThreshold,
    detectionHistory         |-> << >>,
    isMobileListening        |-> FALSE,
    isPitchDetectionPaused   |-> FALSE,
    pitchDetectionWasRunning |-> FALSE ]

\* A "world" w is what the synchronous code of AudioUtils reads and writes:
\* the object's fields and the runtime's intervals.
World == [au |-> au, leaked |-> leaked]

\* the runtime keeps no more unreferenced intervals than the bound allows
Fits(w) == BagCardinality(w.leaked) <= MaxLeaked

\* this.<field> = setInterval(<tick body>, ...): the previous handle is
\* overwritten, not cleared, so an interval it denoted keeps running
setInterval(w, field, kind) ==
  [ au     |-> [w.au EXCEPT ![field] = Interval(kind)],
    leaked |-> IF w.au[field] # NoTimer
                 THEN w.leaked (+) SetToBag({w.au[field]})
                 ELSE w.leaked ]

\* if (this.<field>) { clearInterval(this.<field>); this.<field> = null; }
clearIntervalField(w, field) == [w EXCEPT !.au[field] = NoTimer]

\* a fallback that installs no interval (what StartAlwaysSucceeds rules out)
fallbackWithoutTimer(w) == w

startSimulatedPitchDetection(w) ==
  setInterval(w, "pitchDetectionInterval", "simulated")

startEnhancedSimulatedDetection(w) ==
  setInterval([w EXCEPT !.au.isMobileListening = TRUE],
              "mobileRecordingInterval", "enhanced")

startNativePitchDetection(w) ==
  setInterval([w EXCEPT !.au.isMobileListening = TRUE],
              "mobileRecordingInterval", "native")

\* startWebPitchDetection after getUserMedia resolved: the context, the
\* analyser, the stream source, the buffer and the three detectors are
\* created, then the interval
startWebAcquired(w) ==
  setInterval([w EXCEPT !.au.audioContext = TRUE,
                        !.au.analyser = TRUE,
                        !.au.mediaStreamSource = TRUE,
                        !.au.recordingDataArray = TRUE,
                        !.au.yinDetector = TRUE,
                        !.au.amdfDetector = TRUE,
                        !.au.pitchDetector = TRUE],
              "pitchDetectionInterval", "web")

\* a pause that also empties the Detection Window (what PauseKeepsResources
\* rules out)
pauseClearingWindow(w) ==
  LET w1 == clearIntervalField(w, "pitchDetectionInterval")
      w2 == clearIntervalField(w1, "mobileRecordingInterval")
  IN [w2 EXCEPT !.au.isPitchDetectionPaused = TRUE,
                !.au.pitchDetectionWasRunning = TRUE,
                !.au.detectionHistory = << >>]

pausePitchDetection(w) ==
  LET running == \/ w.au.pitchDetectionInterval # NoTimer
                 \/ w.au.mobileRecordingInterval # NoTimer
      w1 == [w EXCEPT !.au.pitchDetectionWasRunning = running]
  IN IF ~running
       THEN w1
       ELSE LET w2 == clearIntervalField(w1, "pitchDetectionInterval")
                w3 == clearIntervalField(w2, "mobileRecordingInterval")
            IN [w3 EXCEPT !.au.isPitchDetectionPaused = TRUE]

\* a resume that drops the pause record whatever it finds (what
\* ResumeWithoutRecordIsNoOp rules out)
resumeClearingRecord(w) ==
  [w EXCEPT !.au.isPitchDetectionPaused = FALSE,
            !.au.pitchDetectionWasRunning = FALSE]

resumePitchDetection(w) ==
  IF ~w.au.isPitchDetectionPaused \/ ~w.au.pitchDetectionWasRunning
    THEN w
    ELSE LET w1 == IF /\ platform = "web"
                      /\ w.au.audioContext
                      /\ w.au.analyser
                      /\ w.au.recordingDataArray
                     THEN setInterval(w, "pitchDetectionInterval", "webResume")
                     ELSE IF platform = "ios"
                       THEN startNativePitchDetection(w)
                       ELSE IF platform = "android"
                         THEN startEnhancedSimulatedDetection(w)
                         ELSE w
         IN [w1 EXCEPT !.au.isPitchDetectionPaused = FALSE,
                       !.au.pitchDetectionWasRunning = FALSE]

\* stopPitchDetection up to its await of audioContext.close()
stopBeforeClose(w) ==
  LET w1 == clearIntervalField(w, "pitchDetectionInterval")
      w2 == clearIntervalField(w1, "mobileRecordingInterval")
  IN [w2 EXCEPT !.au.isMobileListening = FALSE,
                !.au.detectionHistory = << >>,
                !.au.mediaStreamSource = FALSE,
                !.au.analyser = FALSE]

\* stopPitchDetection from the end of the audioContext block
stopAfterClose(w) ==
  [w EXCEPT !.au.audioContext = FALSE,
            !.au.recordingDataArray = FALSE,
            !.au.pitchDetector = FALSE,
            !.au.yinDetector = FALSE,
            !.au.amdfDetector = FALSE]

(* ------------------------- the sampling ticks ------------------------- *)
RECURSIVE SumSeq(_)
SumSeq(s) == IF s = << >> THEN 0 ELSE Head(s) + SumSeq(Tail(s))

RECURSIVE SumSquares(_)
SumSquares(s) == IF s = << >> THEN 0 ELSE Head(s) * Head(s) + SumSquares(Tail(s))

\* a push that never evicts (what WindowBoundedFifo rules out)
pushWithoutEviction(h, x) == Append(h, x)

\* detectionHistory.push(x); if (length > historySize) shift();
pushHistory(h, x) ==
  LET h1 == Append(h, x)
  IN IF Len(h1) > historySize THEN Tail(h1) ELSE h1

\* calculateVariance(h, mean of h) < bound, bound in hertz squared:
\* variance = (n * sum of squares - square of sum) / n^2, in sixths squared
varianceBelow(h, bound) ==
  IF Len(h) < 2
    THEN 0 < bound
    ELSE Len(h) * SumSquares(h) - SumSeq(h) * SumSeq(h)
           < bound * 36 * Len(h) * Len(h)

\* findClosestNote(average of the window)
closestToAverage(h) == findClosestNote(SumSeq(h), 6 * Len(h))

Event(note, volume) == [note |-> note, volume |-> volume]

\* A frame is what one tick reads from outside the object: the RMS of the
\* analyser's buffer (or the simulated volume), the readings of the three
\* detectors (0 for null) and which of them throws (0 for none), and the
\* values the simulated strategies draw from Math.random(): whether the
\* tick "detects", the simulated frequency and the simulated note name.
Frame(rms, p, throwAt, detect, freq, name) ==
  [rms |-> rms, p |-> p, throwAt |-> throwAt,
   detect |-> detect, freq |-> freq, name |-> name]

\* pitch1, pitch2, pitch3 after the inner try: the detectors are called in
\* order, a null detector or a throwing one ends the block and leaves the
\* remaining readings null
detectorReadings(a, f) ==
  LET present == <<a.pitchDetector, a.yinDetector, a.amdfDetector>>
      fails(k) == ~present[k] \/ f.throwAt = k
  IN [k \in 1..3 |-> IF \E j \in 1..k : fails(j) THEN 0 ELSE f.p[k]]

validPitches(a, f) ==
  SelectSeq(detectorReadings(a, f),
            LAMBDA p : p # 0 /\ p > minFrequency /\ p < maxFrequency)

\* the callback call `if (this.onPitchDetected) this.onPitchDetected(n, v)`
emit(a, note, volume) ==
  IF a.onPitchDetected # 0 THEN << Event(note, volume) >> ELSE << >>

\* the interval body installed by startWebPitchDetection
webTick(a, f) ==
  IF ~a.analyser \/ ~a.recordingDataArray \/ ~a.pitchDetector
    THEN [au |-> a, events |-> << >>]
    ELSE IF f.rms > a.volumeThreshold
      THEN LET valid == validPitches(a, f)
           IN IF Len(valid) > 0
                THEN LET pitch == (6 * SumSeq(valid)) \div Len(valid)
                         inRange == /\ pitch > 6 * minFrequency
                                    /\ pitch < 6 * maxFrequency
                         h == pushHistory(a.detectionHistory, pitch)
                         note == closestToAverage(h)
                     IN IF ~inRange
                          THEN [au |-> a, events |-> << >>]
                          ELSE [au |-> [a EXCEPT !.detectionHistory = h],
                                events |->
                                  IF varianceBelow(h, 5) /\ Len(h) >= 3
                                    THEN IF note # 0
                                           THEN emit(a, TableNote(note), f.rms)
                                           ELSE << >>
                                    ELSE emit(a, NoNote, f.rms)]
                ELSE [au |-> a, events |-> emit(a, NoNote, f.rms)]
      ELSE [au |-> [a EXCEPT !.detectionHistory = << >>],
            events |-> emit(a, NoNote, f.rms)]

\* the interval body installed by resumePitchDetection on the web
webResumeTick(a, f) ==
  IF ~a.analyser \/ ~a.recordingDataArray
    THEN [au |-> a, events |-> << >>]
    ELSE LET first == emit(a, NoNote, f.rms)
             valid == validPitches(a, f)
         IN IF f.rms >= a.volumeThreshold /\ Len(valid) > 0
              THEN LET pitch == (6 * SumSeq(valid)) \div Len(valid)
                       inRange == /\ pitch > 6 * minFrequency
                                  /\ pitch < 6 * maxFrequency
                       h == pushHistory(a.detectionHistory, pitch)
                       note == closestToAverage(h)
                   IN IF ~inRange
                        THEN [au |-> a, events |-> first]
                        ELSE [au |-> [a EXCEPT !.detectionHistory = h],
                              events |->
                                IF varianceBelow(h, 5) /\ Len(h) >= 3 /\ note # 0
                                  THEN first \o emit(a, TableNote(note), f.rms)
                                  ELSE first]
              ELSE [au |-> a, events |-> first]

\* the stabilisation shared by the two mobile bodies: push, then report the
\* resolved note when the window has minLen samples and is stable
mobileDetect(a, f, minLen, bound) ==
  LET h == pushHistory(a.detectionHistory, f.freq)
      note == closestToAverage(h)
  IN [au |-> [a EXCEPT !.detectionHistory = h],
      events |-> IF Len(h) >= minLen /\ varianceBelow(h, bound) /\ note # 0
                   THEN << Event(TableNote(note), f.rms) >>
                   ELSE << Event(NoNote, f.rms) >>]

\* the interval body installed by startNativePitchDetection
nativeTick(a, f) ==
  IF ~a.isMobileListening \/ a.onPitchDetected = 0
    THEN [au |-> a, events |-> << >>]
    ELSE IF f.rms > a.volumeThreshold
      THEN mobileDetect(a, f, 3, 5)
      ELSE [au |-> [a EXCEPT !.detectionHistory = << >>],
            events |-> << Event(NoNote, f.rms) >>]

\* the interval body installed by startEnhancedSimulatedDetection
enhancedTick(a, f) ==
  IF ~a.isMobileListening \/ a.onPitchDetected = 0
    THEN [au |-> a, events |-> << >>]
    ELSE IF f.detect
      THEN mobileDetect(a, f, 2, 10)
      ELSE [au |-> a, events |-> << Event(NoNote, f.rms) >>]

\* the interval body installed by startSimulatedPitchDetection; lastNote is
\* the variable of its closure
simulatedTick(a, lastNote, f) ==
  IF f.detect
    THEN IF f.name # lastNote
           THEN [lastNote |-> f.name,
                 events |-> emit(a, [name |-> f.name, table |-> FALSE],
                                 a.volumeThreshold + f.rms)]
           ELSE [lastNote |-> lastNote, events |-> << >>]
    ELSE [lastNote |-> lastNote, events |-> emit(a, NoNote, f.rms)]

\* one firing of interval t on frame f: the fields, the interval's closure
\* and the events delivered
tick(t, a, f) ==
  LET r == CASE t.kind = "web"       -> webTick(a, f)
             [] t.kind = "webResume" -> webResumeTick(a, f)
             [] t.kind = "native"    -> nativeTick(a, f)
             [] t.kind = "enhanced"  -> enhancedTick(a, f)
             [] OTHER                -> [au |-> a, events |-> << >>]
      s == simulatedTick(a, t.lastNote, f)
  IN IF t.kind = "simulated"
       THEN [au |-> a, timer |-> [t EXCEPT !.lastNote = s.lastNote],
             events |-> s.events]
       ELSE [au |-> r.au, timer |-> t, events |-> r.events]

(* ------------------------------ inputs -------------------------------- *)
\* frames the ticks are fed: a quiet and a loud frame of a sustained A4
\* whose second detector may throw, and the draws of the simulated bodies
Quiet == {5}
Loud == {20}
SimulatedNames == {"A4", "E4"}

Frames(kind) ==
  CASE kind \in {"web", "webResume"} ->
         { Frame(r, <<440, 440, 440>>, k, FALSE, 0, "none") :
             r \in Quiet \cup Loud, k \in {0, 2} }
    [] kind = "native" ->
         { Frame(r, << >>, 0, TRUE, 2640, "none") : r \in Quiet \cup Loud }
    [] kind = "enhanced" ->
         { Frame(60, << >>, 0, d, 2640, "none") : d \in BOOLEAN }
    [] OTHER ->
         { Frame(r, << >>, 0, d, 0, n) :
             r \in Quiet, d \in BOOLEAN, n \in SimulatedNames }

Thresholds == {DefaultVolumeThreshold, 30}

(* ------------------------------ inputs -------------------------------- *)
\* defaultSettings of the app context
defaultSettings ==
  [ notesPerTurn        |-> 1,
    maxInterval         |-> 5,
    repetitionsRequired |-> 3,
    totalSequences      |-> 10,
    volumeThreshold     |-> DefaultVolumeThreshold ]

\* the catalogue indices Math.random() is let to select in a run of the
\* app (A4)
Draws == {30}

(* ------------------------- the training screen ------------------------ *)
\* useState / useRef initial values of TrainingScreen; trials (history)
\* counts the calls of handleTrainingStepComplete of this mount
UiInit ==
  [ currentNotes           |-> << >>,
    detectedNote           |-> NoNote,
    notesPlayed            |-> << >>,
    correctSequencesPlayed |-> 0,
    isTrainingComplete     |-> FALSE,
    isInitializing         |-> TRUE,
    trials                 |-> 0 ]

\* getRandomNote(): any entry of the table
getRandomNote == {i \in 1..Len(GUITAR_NOTES) : i \in random}

\* a draw whose span is one entry too wide at the top (what
\* AdjacentWithinInterval rules out)
randomNoteOneTooFar(ref, maxInterval) ==
  LET minIndex == IF ref - maxInterval < 1 THEN 1 ELSE ref - maxInterval
      maxIndex == IF ref + maxInterval + 1 > Len(GUITAR_NOTES)
                    THEN Len(GUITAR_NOTES) ELSE ref + maxInterval + 1
  IN {i \in minIndex..maxIndex : i \in random}

\* getRandomNoteWithinInterval(GUITAR_NOTES[ref], maxInterval): the entries
\* the random index can select
getRandomNoteWithinInterval(ref, maxInterval) ==
  LET minIndex == IF ref - maxInterval < 1 THEN 1 ELSE ref - maxInterval
      maxIndex == IF ref + maxInterval > Len(GUITAR_NOTES)
                    THEN Len(GUITAR_NOTES) ELSE ref + maxInterval
  IN {i \in minIndex..maxIndex : i \in random}

\* generateNewSequence(): the sequences (of catalogue indices) it can
\* return; Extend adds k notes, each drawn relative to its predecessor
RECURSIVE Extend(_, _, _)
Extend(prefixes, k, maxInterval) ==
  IF k = 0
    THEN prefixes
    ELSE Extend(UNION { {Append(q, y) :
                           y \in getRandomNoteWithinInterval(q[Len(q)], maxInterval)} :
                        q \in prefixes },
                k - 1, maxInterval)

\* a generation whose loop runs once more (what LengthIsNotesPerTurn rules
\* out)
generateOneTooMany(cfg) ==
  Extend({<<x>> : x \in getRandomNote}, cfg.notesPerTurn, cfg.maxInterval)

generateNewSequence(cfg) ==
  Extend({<<x>> : x \in getRandomNote}, cfg.notesPerTurn - 1, cfg.maxInterval)

(* ------------------------------- tasks -------------------------------- *)
\* A task is an asynchronous call or timeout in flight:
\*   kind   "call" (a start or stop issued by a client of the controller),
\*          "init" (the init effect of a mount), "cleanup" (the effect's
\*          cleanup), "demo" (playCurrentSequence[WithNotes]), "step"
\*          (handleTrainingStepComplete, from the success figure on),
\*          "note", "sequence" (a playNote or playSequence called by a
\*          client of the controller)
\*   owner  the mount whose closure it is (0 for a client call)
\*   pc     the suspension point it waits at
\*   notes  the sequence a demonstration plays
\*   i, j   repetition and note index of the playback loops
\*   seqWas, noteWas  the locals wasPitchDetectionPaused of playSequence and
\*          playNote
\*   first  the demonstration is the one of the init effect
\*   cap    the sequence counter the closure captured
\*   heard  (history) the session was Listening when the playback began
\* A local is reset to its initial value where the code no longer reads it.
Task(kind, owner, pc) ==
  [kind |-> kind, owner |-> owner, pc |-> pc, notes |-> << >>, i |-> 0,
   j |-> 0, seqWas |-> FALSE, noteWas |-> FALSE, first |-> FALSE, cap |-> 0,
   heard |-> FALSE]

DemoRepetitions == 3
FigureNotes == 4

HasSlot == BagCardinality(tasks) < MaxTasks

Replace(bag, old, new) == (bag (-) SetToBag({old})) (+) SetToBag({new})
Remove(bag, old) == bag (-) SetToBag({old})

\* a sampling timer is installed: one of the two interval handles is set
TimerActive(a) ==
  \/ a.pitchDetectionInterval # NoTimer
  \/ a.mobileRecordingInterval # NoTimer

\* Session State as the object's fields give it
Listening(a) == TimerActive(a) /\ ~a.isPitchDetectionPaused

\* The playback code, run from one suspension point to the next.  Each
\* operator takes the world and the task and returns both.
Run(w, t) == [w |-> w, t |-> t]

\* playNote after the isInitialized check, up to `await playSound(...)`
playNoteBody(w, t) ==
  LET was == w.au.isPitchDetectionPaused
  IN Run(IF was THEN w ELSE pausePitchDetection(w),
         [t EXCEPT !.noteWas = was, !.pc = "sound"])

\* playNote up to its first suspension point
playNote(w, t) ==
  IF ~w.au.isInitialized
    THEN Run(w, [t EXCEPT !.pc = "noteInit"])
    ELSE playNoteBody(w, t)

\* playSequence after the isInitialized check
playSequenceBody(w, t) ==
  LET was == w.au.isPitchDetectionPaused
  IN playNote(IF was THEN w ELSE pausePitchDetection(w),
              [t EXCEPT !.seqWas = was, !.j = 0])

\* playSequence up to its first suspension point
playSequence(w, t) ==
  IF ~w.au.isInitialized
    THEN Run(w, [t EXCEPT !.pc = "seqInit"])
    ELSE playSequenceBody(w, t)

\* playCurrentSequence / playCurrentSequenceWithNotes up to the first
\* suspension point (the notes are not empty)
playCurrentSequenceWithNotes(w, t) ==
  playSequence(pausePitchDetection(w),
               [t EXCEPT !.kind = "demo", !.i = 0, !.heard = Listening(w.au)])

\* playSuccessSound up to its first suspension point
playSuccessSound(w, t) ==
  playNote(pausePitchDetection(w),
           [t EXCEPT !.kind = "step", !.j = 0, !.heard = Listening(w.au)])

\* the finally blocks of playSequence and of the demonstration, entered
\* after the last note of a repetition
leaveSequence(w, t) ==
  LET w1 == IF t.seqWas THEN w ELSE resumePitchDetection(w)
  IN IF t.kind = "sequence"
       THEN Run(w1, [t EXCEPT !.pc = "returned"])
     ELSE IF t.i < DemoRepetitions - 1
       THEN Run(w1, [t EXCEPT !.pc = "repGap", !.seqWas = FALSE, !.noteWas = FALSE])
       ELSE Run(resumePitchDetection(w1), [t EXCEPT !.pc = "returned"])

\* playNote from the settling of playSound (resolved or rejected alike:
\* the finally block runs and the catch swallows the error), then the code
\* of its caller up to the next suspension point
afterSound(w, t) ==
  LET w1 == IF t.noteWas THEN w ELSE resumePitchDetection(w)
  IN IF t.kind = "step"
       THEN Run(w1, [t EXCEPT !.pc = "figureGap", !.noteWas = FALSE])
     ELSE IF t.kind = "note"
       THEN Run(w1, [t EXCEPT !.pc = "returned"])
       ELSE IF t.j < Len(t.notes) - 1
              THEN Run(w1, [t EXCEPT !.pc = "noteGap", !.noteWas = FALSE])
              ELSE leaveSequence(w1, t)

\* a playNote without its catch block: the error of a sound that failed
\* reaches the caller (what FailedNoteSkipped rules out)
notePropagating(ok) == ~ok

\* playNote raises to its caller when playSound settled with outcome ok:
\* never, `catch (error) { console.error(...) }` ends it normally
noteRaises(ok) == FALSE

\* playNote from the settling of playSound with outcome ok (the sound was
\* played, or it failed), then its caller.  An error playNote let through
\* would leave the loop of playSequence, whose finally block and catch end
\* the sequence there.
afterSoundOutcome(w, t, ok) ==
  IF noteRaises(ok) /\ t.kind \notin {"step", "note"}
    THEN leaveSequence(IF t.noteWas THEN w ELSE resumePitchDetection(w), t)
    ELSE afterSound(w, t)

\* playSuccessSound after the pause that follows a note
afterFigureGap(w, t) ==
  IF t.j < FigureNotes - 1
    THEN playNote(w, [t EXCEPT !.j = t.j + 1])
    ELSE Run(resumePitchDetection(w), [t EXCEPT !.pc = "returned"])

\* this.init() settled: isInitialized is set when setAudioModeAsync resolved
afterInit(w, ok) == IF ok THEN [w EXCEPT !.au.isInitialized = TRUE] ELSE w

\* startPitchDetection from the settling of the permission request: the
\* world, and whether the call goes on to getUserMedia instead of returning
startAfterPermission(w, outcome) ==
  IF outcome # "granted"
    THEN [w |-> startSimulatedPitchDetection(w), media |-> FALSE]
    ELSE IF platform = "android"
      THEN [w |-> startEnhancedSimulatedDetection(w), media |-> FALSE]
      ELSE IF platform = "ios"
        THEN [w |-> startNativePitchDetection(w), media |-> FALSE]
        ELSE IF ~webAudio
          THEN [w |-> startSimulatedPitchDetection(w), media |-> FALSE]
          ELSE [w |-> w, media |-> TRUE]

\* startWebPitchDetection from the settling of getUserMedia
startAfterMedia(w, outcome) ==
  IF outcome = "stream"
    THEN startWebAcquired(w)
    ELSE startSimulatedPitchDetection(w)

\* the caller of startPitchDetection once it returned true: a client call
\* is over, the init effect goes on to the first demonstration
afterStart(w, t) ==
  IF t.kind = "init"
    THEN playCurrentSequenceWithNotes(w, [t EXCEPT !.first = TRUE])
    ELSE Run(w, [t EXCEPT !.pc = "returned"])

(* --------------------------- observations ----------------------------- *)
\* op: the operation that returned in the step; result: what a start
\* returned; fired: the tick body that ran; events: the callback events it
\* delivered; heard: the session was Listening when the playback that
\* returned began
NoObs ==
  [op |-> "none", result |-> FALSE, fired |-> "none", events |-> << >>,
   heard |-> FALSE]

\* every return statement startPitchDetection can end with is `return true`
startResult == TRUE

Returned(op) == [NoObs EXCEPT !.op = op]

Fired(kind, events) == [NoObs EXCEPT !.fired = kind, !.events = events]

\* what the step that moved task t to t2 let return
ObsOf(t, t2) ==
  IF t2.pc # "returned"
    THEN NoObs
    ELSE IF t2.kind = "demo"
      THEN [Returned("demonstration") EXCEPT !.heard = t2.heard]
      ELSE IF t2.kind = "step"
        THEN [Returned("figure") EXCEPT !.heard = t2.heard]
      ELSE IF t2.kind \in {"note", "sequence"}
        THEN [Returned(t2.kind) EXCEPT !.heard = t2.heard]
        ELSE IF t.pc \in {"permission", "media"}
          THEN [Returned("start") EXCEPT !.result = startResult]
          ELSE Returned("stop")

(* ------------------------------ Init ---------------------------------- *)
\* no function of the note table has been called
NoProbe == [fn |-> "none", arg |-> << >>, out |-> 0]

InitProgram ==
  /\ platform \in Platforms
  /\ webAudio \in IF platform = "web" THEN BOOLEAN ELSE {FALSE}
  /\ settings = defaultSettings
  /\ au = AudioUtilsInit
  /\ leaked = EmptyBag
  /\ tasks = EmptyBag
  /\ screen = 0
  /\ mounts = 0
  /\ ui = UiInit
  /\ currentSequence = 1
  /\ obs = NoObs

Init == InitProgram /\ random = Draws /\ probe = NoProbe

SetWorld(w) == au' = w.au /\ leaked' = w.leaked

envVars == <<platform, webAudio, random, settings, probe>>

\* the settings Start saves for a run: one sequence of one note on the
\* mobile builds, one sequence of two notes on the web build without Web
\* Audio, two sequences of one note on the web build with it
SettingsChoices ==
  { [ notesPerTurn        |-> IF platform = "web" /\ ~webAudio THEN 2 ELSE 1,
      maxInterval         |-> 5,
      repetitionsRequired |-> 1,
      totalSequences      |-> IF platform = "web" /\ webAudio THEN 2 ELSE 1,
      volumeThreshold     |-> DefaultVolumeThreshold ] }

(* --------------------- the detection effect of the screen ------------- *)
\* The callback of mount `screen` receives event e: setDetectedNote, and,
\* when the state changed, the effect on detectedNote.  x carries the world,
\* the React state and the tasks spawned so far.
Delivery(w, u, spawned) == [w |-> w, ui |-> u, spawned |-> spawned]

\* a completion that ends the trial on whichever pass it is (what
\* RepetitionCounting rules out)
completedOnFirstPass(x, played) ==
  LET r == playSuccessSound(x.w,
             [Task("step", screen, "figure") EXCEPT !.cap = currentSequence])
  IN Delivery(r.w,
              [x.ui EXCEPT !.notesPlayed = played,
                           !.correctSequencesPlayed = x.ui.correctSequencesPlayed + 1,
                           !.trials = x.ui.trials + 1],
              Append(x.spawned, r.t))

\* handleSequenceCompleted for the match of the last position
handleSequenceCompleted(x, played) ==
  LET newCount == x.ui.correctSequencesPlayed + 1
  IN IF newCount >= settings.repetitionsRequired
       THEN LET r == playSuccessSound(x.w,
                       [Task("step", screen, "figure") EXCEPT !.cap = currentSequence])
            IN Delivery(r.w,
                        [x.ui EXCEPT !.notesPlayed = played,
                                     !.correctSequencesPlayed = newCount,
                                     !.trials = x.ui.trials + 1],
                        Append(x.spawned, r.t))
       ELSE Delivery(x.w,
                     [x.ui EXCEPT !.notesPlayed = << >>,
                                  !.correctSequencesPlayed = newCount],
                     x.spawned)

\* an effect that drops the positions matched so far when the note is not
\* the expected one (what MismatchChangesNothing rules out)
effectResettingOnMismatch(x) ==
  LET u == x.ui
      expectedNoteIndex == Len(u.notesPlayed)
      played == Append(u.notesPlayed, expectedNoteIndex)
  IN IF u.detectedNote = NoNote \/ u.isInitializing
       THEN x
       ELSE IF /\ expectedNoteIndex < Len(u.currentNotes)
               /\ u.detectedNote.name =
                    GUITAR_NOTES[u.currentNotes[expectedNoteIndex + 1]].name
              THEN IF expectedNoteIndex = Len(u.currentNotes) - 1
                     THEN handleSequenceCompleted(x, played)
                     ELSE [x EXCEPT !.ui.notesPlayed = played]
              ELSE [x EXCEPT !.ui.notesPlayed = << >>]

\* an effect that matches a note of the sequence wherever it stands (what
\* WrongOrderNeverPastStart rules out)
effectIgnoringOrder(x) ==
  LET u == x.ui
      expectedNoteIndex == Len(u.notesPlayed)
      played == Append(u.notesPlayed, expectedNoteIndex)
  IN IF u.detectedNote = NoNote \/ u.isInitializing
       THEN x
       ELSE IF /\ expectedNoteIndex < Len(u.currentNotes)
               /\ \E k \in 1..Len(u.currentNotes) :
                    u.detectedNote.name = GUITAR_NOTES[u.currentNotes[k]].name
              THEN IF expectedNoteIndex = Len(u.currentNotes) - 1
                     THEN handleSequenceCompleted(x, played)
                     ELSE [x EXCEPT !.ui.notesPlayed = played]
              ELSE x

detectionEffect(x) ==
  LET u == x.ui
      expectedNoteIndex == Len(u.notesPlayed)
      played == Append(u.notesPlayed, expectedNoteIndex)
  IN IF u.detectedNote = NoNote \/ u.isInitializing
       THEN x
       ELSE IF /\ expectedNoteIndex < Len(u.currentNotes)
               /\ u.detectedNote.name =
                    GUITAR_NOTES[u.currentNotes[expectedNoteIndex + 1]].name
              THEN IF expectedNoteIndex = Len(u.currentNotes) - 1
                     THEN handleSequenceCompleted(x, played)
                     ELSE [x EXCEPT !.ui.notesPlayed = played]
              ELSE x

\* a setState with the value the state already holds renders nothing: the
\* shared object of the table is identical to itself, an object built by
\* the simulated strategy is identical to no earlier one
deliver(x, e) ==
  IF x.ui.detectedNote = e.note /\ (e.note = NoNote \/ e.note.table)
    THEN x
    ELSE detectionEffect([x EXCEPT !.ui.detectedNote = e.note])

RECURSIVE deliverAll(_, _)
deliverAll(x, events) ==
  IF events = << >>
    THEN x
    ELSE deliverAll(deliver(x, Head(events)), Tail(events))

RECURSIVE AddAll(_, _)
AddAll(bag, ts) ==
  IF ts = << >> THEN bag ELSE AddAll(bag (+) SetToBag({Head(ts)}), Tail(ts))

\* the events of a tick reach the callback registered when it fired; the
\* callback of an unmounted screen sets state on nothing
Deliver(w, callback, events) ==
  LET x == IF callback # 0 /\ callback = screen
             THEN deliverAll(Delivery(w, ui, << >>), events)
             ELSE Delivery(w, ui, << >>)
  IN /\ BagCardinality(tasks) + Len(x.spawned) <= MaxTasks
     /\ Fits(x.w)
     /\ SetWorld(x.w)
     /\ ui' = x.ui
     /\ tasks' = AddAll(tasks, x.spawned)

(* ------------------------------- ticks -------------------------------- *)
HandleFields == {"pitchDetectionInterval", "mobileRecordingInterval"}

\* the body of the interval a field of the object references runs on
\* frame f
FireField(field, f) ==
  /\ au[field] # NoTimer
  /\ LET r == tick(au[field], au, f)
     IN /\ Deliver([au |-> [r.au EXCEPT ![field] = r.timer], leaked |-> leaked],
                   au.onPitchDetected, r.events)
        /\ obs' = Fired(au[field].kind, r.events)
  /\ UNCHANGED <<screen, mounts, currentSequence>>

\* the interval a field of the object references fires
TickField(field, f) ==
  /\ au[field] # NoTimer
  /\ f \in Frames(au[field].kind)
  /\ FireField(field, f)
  /\ UNCHANGED envVars

\* an interval no field references fires
TickLeaked(t, f) ==
  /\ BagIn(t, leaked)
  /\ f \in Frames(t.kind)
  /\ LET r == tick(t, au, f)
     IN /\ Deliver([au |-> r.au, leaked |-> Replace(leaked, t, r.timer)],
                   au.onPitchDetected, r.events)
        /\ obs' = Fired(t.kind, r.events)
  /\ UNCHANGED <<envVars, screen, mounts, currentSequence>>

AllFrames == UNION {Frames(k) : k \in Strategies}

Tick ==
  \/ \E field \in HandleFields, f \in AllFrames : TickField(field, f)
  \/ \E t \in BagToSet(leaked), f \in AllFrames : TickLeaked(t, f)

(* ------------------ continuations of the calls in flight -------------- *)
\* Settle the step that moved task t to r.t in world r.w: a returned task
\* leaves the bag
Settle(t, r) ==
  /\ Fits(r.w)
  /\ SetWorld(r.w)
  /\ tasks' = IF r.t.pc = "returned" THEN Remove(tasks, t) ELSE Replace(tasks, t, r.t)
  /\ obs' = ObsOf(t, r.t)

\* Audio.requestPermissionsAsync() settled
PermissionSettled(t, outcome) ==
  /\ BagIn(t, tasks) /\ t.pc = "permission"
  /\ LET s == startAfterPermission(World, outcome)
     IN Settle(t, IF s.media THEN Run(s.w, [t EXCEPT !.pc = "media"])
                             ELSE afterStart(s.w, t))
  /\ UNCHANGED <<envVars, appVars>>

\* navigator.mediaDevices.getUserMedia() settled
MediaSettled(t, outcome) ==
  /\ BagIn(t, tasks) /\ t.pc = "media"
  /\ Settle(t, afterStart(startAfterMedia(World, outcome), t))
  /\ UNCHANGED <<envVars, appVars>>

\* audioContext.close() resolved: stopPitchDetection returns; cleanup goes
\* on to `await SoundManager.unloadAll()`
CloseResolved(t) ==
  /\ BagIn(t, tasks) /\ t.pc = "close"
  /\ Settle(t, Run(stopAfterClose(World),
                   [t EXCEPT !.pc = IF t.kind = "cleanup" THEN "unload" ELSE "returned"]))
  /\ UNCHANGED <<envVars, appVars>>

\* SoundManager.unloadAll() resolved: cleanup clears isInitialized
UnloadResolved(t) ==
  /\ BagIn(t, tasks) /\ t.pc = "unload"
  /\ au' = [au EXCEPT !.isInitialized = FALSE]
  /\ tasks' = Remove(tasks, t)
  /\ obs' = NoObs
  /\ UNCHANGED <<envVars, leaked, appVars>>

\* this.init() settled inside playSequence or playNote (ok: the audio mode
\* was set; the model lets only the init of the init effect fail)
AudioInitSettled(t, ok) ==
  /\ BagIn(t, tasks) /\ t.pc \in {"seqInit", "noteInit"}
  /\ Settle(t, IF t.pc = "seqInit"
                 THEN playSequenceBody(afterInit(World, ok), t)
                 ELSE playNoteBody(afterInit(World, ok), t))
  /\ UNCHANGED <<envVars, appVars>>

\* the ui of mount m after an update, which an unmounted screen ignores
UiOf(m, u) == IF m = screen THEN u ELSE ui

\* the code that runs when SoundManager.playSound() settles with outcome ok
SoundSettles(t, ok) ==
  /\ BagIn(t, tasks) /\ t.pc = "sound"
  /\ LET r == afterSoundOutcome(World, t, ok)
     IN /\ Settle(t, r)
        /\ ui' = IF r.t.pc = "returned" /\ t.first
                   THEN UiOf(t.owner, [ui EXCEPT !.isInitializing = FALSE])
                   ELSE ui
  /\ UNCHANGED <<screen, mounts, currentSequence>>

\* SoundManager.playSound() settled
SoundSettled(t, ok) ==
  /\ SoundSettles(t, ok)
  /\ UNCHANGED envVars

\* the delay between two notes of playSequence elapsed
NoteGapElapsed(t) ==
  /\ BagIn(t, tasks) /\ t.pc = "noteGap"
  /\ Settle(t, playNote(World, [t EXCEPT !.j = t.j + 1]))
  /\ UNCHANGED <<envVars, appVars>>

\* the delay between two repetitions of a demonstration elapsed
RepGapElapsed(t) ==
  /\ BagIn(t, tasks) /\ t.pc = "repGap"
  /\ Settle(t, playSequence(World, [t EXCEPT !.i = t.i + 1]))
  /\ UNCHANGED <<envVars, appVars>>

\* a step that compares the counter with the budget even when the budget
\* is 0 (what UnboundedNeverFinishes rules out)
FigureGapWithZeroBudget(t) ==
  /\ BagIn(t, tasks) /\ t.pc = "figureGap"
  /\ LET r == afterFigureGap(World, t)
         over == t.cap >= settings.totalSequences
     IN IF r.t.pc # "returned"
          THEN /\ Settle(t, r)
               /\ UNCHANGED <<ui, currentSequence>>
          ELSE /\ Fits(r.w)
               /\ SetWorld(r.w)
               /\ obs' = ObsOf(t, r.t)
               /\ IF over
                    THEN /\ ui' = UiOf(t.owner, [ui EXCEPT !.isTrainingComplete = TRUE])
                         /\ tasks' = Replace(tasks, t, [r.t EXCEPT !.pc = "finish"])
                         /\ UNCHANGED currentSequence
                    ELSE /\ currentSequence < MaxSequence
                         /\ currentSequence' = currentSequence + 1
                         /\ tasks' = Replace(tasks, t, [r.t EXCEPT !.pc = "nextSequence"])
                         /\ UNCHANGED ui
  /\ UNCHANGED <<envVars, screen, mounts>>

\* the delay after a note of the success figure elapsed; after the last one
\* playSuccessSound returns and handleTrainingStepComplete goes on
FigureGapElapsed(t) ==
  /\ BagIn(t, tasks) /\ t.pc = "figureGap"
  /\ LET r == afterFigureGap(World, t)
         over == settings.totalSequences > 0 /\ t.cap >= settings.totalSequences
     IN IF r.t.pc # "returned"
          THEN /\ Settle(t, r)
               /\ UNCHANGED <<ui, currentSequence>>
          ELSE /\ Fits(r.w)
               /\ SetWorld(r.w)
               /\ obs' = ObsOf(t, r.t)
               /\ IF over
                    THEN /\ ui' = UiOf(t.owner, [ui EXCEPT !.isTrainingComplete = TRUE])
                         /\ tasks' = Replace(tasks, t, [r.t EXCEPT !.pc = "finish"])
                         /\ UNCHANGED currentSequence
                    ELSE /\ currentSequence < MaxSequence
                         /\ currentSequence' = currentSequence + 1
                         /\ tasks' = Replace(tasks, t, [r.t EXCEPT !.pc = "nextSequence"])
                         /\ UNCHANGED ui
  /\ UNCHANGED <<envVars, screen, mounts>>

\* a next sequence that is shown with the progress of the last one (what
\* ProgressResetWithSequence rules out)
NextSequenceKeepingProgress(t, newSequence) ==
  /\ BagIn(t, tasks) /\ t.pc = "nextSequence"
  /\ newSequence \in generateNewSequence(settings)
  /\ ui' = UiOf(t.owner, [ui EXCEPT !.currentNotes = newSequence])
  /\ tasks' = Replace(tasks, t, [t EXCEPT !.pc = "nextDemo", !.notes = newSequence])
  /\ obs' = NoObs
  /\ UNCHANGED <<envVars, au, leaked, screen, mounts, currentSequence>>

\* the 2 s timeout of handleTrainingStepComplete fired: the next sequence
\* is generated and the state reset, then the 200 ms timeout is set
NextSequenceDue(t, newSequence) ==
  /\ BagIn(t, tasks) /\ t.pc = "nextSequence"
  /\ newSequence \in generateNewSequence(settings)
  /\ ui' = UiOf(t.owner, [ui EXCEPT !.currentNotes = newSequence,
                                    !.notesPlayed = << >>,
                                    !.correctSequencesPlayed = 0])
  /\ tasks' = Replace(tasks, t, [t EXCEPT !.pc = "nextDemo", !.notes = newSequence])
  /\ obs' = NoObs
  /\ UNCHANGED <<envVars, au, leaked, screen, mounts, currentSequence>>

\* the 200 ms timeout fired: the new sequence is demonstrated
DemoDue(t) ==
  /\ BagIn(t, tasks) /\ t.pc = "nextDemo"
  /\ Settle(t, playCurrentSequenceWithNotes(World, [t EXCEPT !.first = FALSE]))
  /\ UNCHANGED <<envVars, appVars>>

(* ------------------------- mount and unmount -------------------------- *)
\* AudioUtils.cleanup() up to its first suspension point
cleanup(w, m) ==
  IF w.au.audioContext
    THEN Run(stopBeforeClose(w), Task("cleanup", m, "close"))
    ELSE Run(stopAfterClose(stopBeforeClose(w)), Task("cleanup", m, "unload"))

\* Start on the settings screen: handleStart saves the settings, the
\* training screen mounts and its init effect runs up to
\* `await AudioUtils.init()`
PressStart(cfg) ==
  /\ screen = 0
  /\ mounts < MaxMounts
  /\ HasSlot
  /\ mounts > 0 => cfg = settings
  /\ settings' = cfg
  /\ mounts' = mounts + 1
  /\ screen' = mounts + 1
  /\ ui' = UiInit
  /\ au' = [au EXCEPT !.volumeThreshold = cfg.volumeThreshold]
  /\ tasks' = tasks (+) SetToBag({Task("init", mounts + 1, "audioInit")})
  /\ obs' = NoObs
  /\ UNCHANGED <<platform, webAudio, random, probe, leaked, currentSequence>>

\* AudioUtils.init() of the init effect settled: the first sequence is
\* generated and the 100 ms timeout set
InitAudioSettled(t, ok, newSequence) ==
  /\ BagIn(t, tasks) /\ t.pc = "audioInit"
  /\ newSequence \in generateNewSequence(settings)
  /\ au' = afterInit(World, ok).au
  /\ ui' = UiOf(t.owner, [ui EXCEPT !.currentNotes = newSequence])
  /\ tasks' = Replace(tasks, t, [t EXCEPT !.pc = "stateDelay", !.notes = newSequence])
  /\ obs' = NoObs
  /\ UNCHANGED <<envVars, leaked, screen, mounts, currentSequence>>

\* the 100 ms timeout fired: startPitchDetection(cb) up to
\* `await Audio.requestPermissionsAsync()`
StateDelayElapsed(t) ==
  /\ BagIn(t, tasks) /\ t.pc = "stateDelay"
  /\ au' = [au EXCEPT !.onPitchDetected = t.owner, !.detectionHistory = << >>]
  /\ tasks' = Replace(tasks, t, [t EXCEPT !.pc = "permission"])
  /\ obs' = NoObs
  /\ UNCHANGED <<envVars, leaked, appVars>>

\* "Voltar": onFinish unmounts the screen and the effect's cleanup runs
PressBack ==
  /\ screen # 0
  /\ ~ui.isTrainingComplete
  /\ HasSlot
  /\ LET r == cleanup(World, screen)
     IN /\ SetWorld(r.w)
        /\ tasks' = tasks (+) SetToBag({r.t})
  /\ screen' = 0
  /\ obs' = NoObs
  /\ UNCHANGED <<envVars, mounts, ui, currentSequence>>

\* the 3 s timeout of a finished run fired: onFinish() unmounts whichever
\* training screen is shown
FinishDue(t) ==
  /\ BagIn(t, tasks) /\ t.pc = "finish"
  /\ IF screen # 0
       THEN LET r == cleanup(World, screen)
            IN /\ SetWorld(r.w)
               /\ tasks' = Replace(tasks, t, r.t)
       ELSE /\ tasks' = Remove(tasks, t)
            /\ UNCHANGED <<au, leaked>>
  /\ screen' = 0
  /\ obs' = NoObs
  /\ UNCHANGED <<envVars, mounts, ui, currentSequence>>

\* "Ouvir sequência": playCurrentSequence with the notes of the last render
PressListen ==
  /\ screen # 0
  /\ ~ui.isTrainingComplete
  /\ ui.currentNotes # << >>
  /\ HasSlot
  /\ LET r == playCurrentSequenceWithNotes(World,
                [Task("demo", screen, "demo") EXCEPT !.notes = ui.currentNotes])
     IN /\ SetWorld(r.w)
        /\ tasks' = tasks (+) SetToBag({r.t})
  /\ obs' = NoObs
  /\ UNCHANGED <<envVars, appVars>>

(* ------------------ calls of a client of the controller --------------- *)
ClientCallback == MaxMounts + 1

\* startPitchDetection(cb) up to `await Audio.requestPermissionsAsync()`
StartCall ==
  /\ HasSlot
  /\ au' = [au EXCEPT !.onPitchDetected = ClientCallback, !.detectionHistory = << >>]
  /\ tasks' = tasks (+) SetToBag({Task("call", 0, "permission")})
  /\ obs' = NoObs
  /\ UNCHANGED <<envVars, leaked, appVars>>

\* stopPitchDetection: up to `await this.audioContext.close()`, or to its
\* end when there is no audio context to close
StopCall ==
  /\ IF au.audioContext
       THEN /\ HasSlot
            /\ SetWorld(stopBeforeClose(World))
            /\ tasks' = tasks (+) SetToBag({Task("call", 0, "close")})
            /\ obs' = NoObs
       ELSE /\ SetWorld(stopAfterClose(stopBeforeClose(World)))
            /\ obs' = Returned("stop")
            /\ UNCHANGED tasks
  /\ UNCHANGED <<envVars, appVars>>

Pause ==
  /\ SetWorld(pausePitchDetection(World))
  /\ obs' = Returned("pause")
  /\ UNCHANGED <<envVars, tasks, appVars>>

Resume ==
  /\ Fits(resumePitchDetection(World))
  /\ SetWorld(resumePitchDetection(World))
  /\ obs' = Returned("resume")
  /\ UNCHANGED <<envVars, tasks, appVars>>

SetVolumeThreshold(v) ==
  /\ au' = [au EXCEPT !.volumeThreshold = v]
  /\ obs' = NoObs
  /\ UNCHANGED <<envVars, leaked, tasks, appVars>>

(* ------------------- calls of the note table's functions -------------- *)
\* out of a call that has not returned
Pending == -1

Call(fn, arg) == [fn |-> fn, arg |-> arg, out |-> Pending]

\* the frequencies findClosestNote is called with, as <<n, d>> for n/d
\* hertz: every whole hertz from 1 to MaxHertz, the point halfway between each
\* two neighbours of the table, and the points 5% below the lowest and 5%
\* above the highest entry with their neighbours a two-thousandth of a
\* hertz away; and zero, every whole negative hertz down to -MaxHertz and
\* the negative frequencies a two-thousandth of a hertz apart next to zero
ProbeFrequencies ==
  LET last == Len(GUITAR_NOTES)
  IN { <<n, 1>> : n \in (-MaxHertz)..MaxHertz }
       \cup { <<-k, 2000>> : k \in 1..3 }
       \cup { <<GUITAR_NOTES[i].frequency + GUITAR_NOTES[i + 1].frequency, 200>> :
                i \in 1..(last - 1) }
       \cup { <<19 * GUITAR_NOTES[1].frequency + k, 2000>> : k \in {-1, 0, 1} }
       \cup { <<21 * GUITAR_NOTES[last].frequency + k, 2000>> : k \in {-1, 0, 1} }

\* findClosestNote(frequency) is called and returns
CallFindClosestNote ==
  /\ probe.fn = "findClosestNote" /\ probe.out = Pending
  /\ probe' = [probe EXCEPT !.out = findClosestNote(probe.arg[1], probe.arg[2])]
  /\ UNCHANGED <<platform, webAudio, random, settings, au, leaked, tasks, appVars, obs>>

\* the bounds the settings form puts on "Notas por turno" and on "Intervalo
\* máximo": handleNumberChange(value, setter, 1, 5) and (value, setter, 1, 12)
MaxNotesPerTurn == 5
MaxIntervalSetting == 12

\* getRandomNoteWithinInterval(reference, maxInterval) is called with every
\* note of the table and every interval of the settings, Math.random() free
\* to select any index
IntervalCalls ==
  { Call("getRandomNoteWithinInterval", <<ref, m>>) :
      ref \in 1..Len(GUITAR_NOTES), m \in 1..MaxIntervalSetting }

\* getRandomNoteWithinInterval(reference, maxInterval) is called and returns
CallGetRandomNoteWithinInterval ==
  /\ probe.fn = "getRandomNoteWithinInterval" /\ probe.out = Pending
  /\ \E i \in getRandomNoteWithinInterval(probe.arg[1], probe.arg[2]) :
       probe' = [probe EXCEPT !.out = i]
  /\ UNCHANGED <<platform, webAudio, random, settings, au, leaked, tasks, appVars, obs>>

\* the intervals generateNewSequence is called with and the catalogue
\* indices Math.random() is let to select in those calls: the two ends of
\* the table, and entries one, five and twelve apart
SequenceIntervals == {1, 5, MaxIntervalSetting}
SequenceDraws == {1, 2, 7, 19, 44}

\* out of a call that returns a sequence and has not returned (a sequence
\* returned has a first note)
NoSequence == << >>

\* generateNewSequence() is called with every length of the settings
SequenceCalls ==
  { [Call("generateNewSequence", <<n, m>>) EXCEPT !.out = NoSequence] :
      n \in 1..MaxNotesPerTurn, m \in SequenceIntervals }

\* generateNewSequence() is called and returns
CallGenerateNewSequence ==
  /\ probe.fn = "generateNewSequence" /\ probe.out = NoSequence
  /\ \E q \in generateNewSequence([notesPerTurn |-> probe.arg[1],
                                   maxInterval  |-> probe.arg[2]]) :
       probe' = [probe EXCEPT !.out = q]
  /\ UNCHANGED <<platform, webAudio, random, settings, au, leaked, tasks, appVars, obs>>

InitNotes ==
  /\ InitProgram
  /\ \/ /\ probe \in { Call("findClosestNote", f) : f \in ProbeFrequencies }
        /\ random = Draws
     \/ /\ probe \in IntervalCalls
        /\ random = 1..Len(GUITAR_NOTES)
     \/ /\ probe \in SequenceCalls
        /\ random = SequenceDraws

NextNotes ==
  \/ CallFindClosestNote
  \/ CallGetRandomNoteWithinInterval
  \/ CallGenerateNewSequence

\* the functions of the note table, each called once on an input
SpecNotes == InitNotes /\ [][NextNotes]_vars

(* --------------------------- specifications --------------------------- *)
AllTasks == BagToSet(tasks)

\* the continuations of the controller's own asynchronous methods
Continue ==
  \/ \E t \in AllTasks, o \in PermissionOutcomes : PermissionSettled(t, o)
  \/ \E t \in AllTasks, o \in MediaOutcomes : MediaSettled(t, o)
  \/ \E t \in AllTasks : CloseResolved(t)

\* the controller under a client that calls its methods in any order
NextSession ==
  \/ StartCall
  \/ StopCall
  \/ Pause
  \/ Resume
  \/ \E v \in Thresholds : SetVolumeThreshold(v)
  \/ Continue
  \/ Tick

SpecSession == Init /\ [][NextSession]_vars

\* the app: the settings screen and the training screen driving the
\* controller
Next ==
  \/ \E cfg \in SettingsChoices : PressStart(cfg)
  \/ PressBack
  \/ PressListen
  \/ \E t \in AllTasks, ok \in BOOLEAN, s \in generateNewSequence(settings) :
       InitAudioSettled(t, ok, s)
  \/ \E t \in AllTasks : StateDelayElapsed(t)
  \/ Continue
  \/ \E t \in AllTasks : UnloadResolved(t)
  \/ \E t \in AllTasks, ok \in {TRUE} : AudioInitSettled(t, ok)
  \/ \E t \in AllTasks, ok \in BOOLEAN : SoundSettled(t, ok)
  \/ \E t \in AllTasks : NoteGapElapsed(t)
  \/ \E t \in AllTasks : RepGapElapsed(t)
  \/ \E t \in AllTasks : FigureGapElapsed(t)
  \/ \E t \in AllTasks, s \in generateNewSequence(settings) : NextSequenceDue(t, s)
  \/ \E t \in AllTasks : DemoDue(t)
  \/ \E t \in AllTasks : FinishDue(t)
  \/ Tick

Spec == Init /\ [][Next]_vars

(* ------------- the training screen under any stream of events --------- *)
\* the intervals the runtime runs
RunningIntervals ==
  ({au[field] : field \in HandleFields} \ {NoTimer}) \cup BagToSet(leaked)

\* the body of interval t reaches a call of the callback: the checks every
\* tick body makes before it samples
CanCall(t, a) ==
  /\ a.onPitchDetected # 0
  /\ CASE t.kind = "web"       -> a.analyser /\ a.recordingDataArray /\ a.pitchDetector
       [] t.kind = "webResume" -> a.analyser /\ a.recordingDataArray
       [] t.kind = "simulated" -> TRUE
       [] OTHER                -> a.isMobileListening

\* the notes the events carry (C4, E4) and the volume they report
EventNotes == {21, 25}
EventVolume == 20

\* the events the body of interval t can hand to the callback: no note, or
\* a note, which is an entry of the table (findClosestNote) except in the
\* simulated body, which builds the object
EventsOf(t) ==
  {Event(NoNote, EventVolume)}
    \cup { Event([name |-> GUITAR_NOTES[i].name, table |-> t.kind # "simulated"],
                 EventVolume) : i \in EventNotes }

\* A tick of a running interval calls the callback with event e.  What the
\* tick read and how it came to e are left open, and so is the Detection
\* Window, which the screen never reads.
DetectorEvent(t, e) ==
  /\ t \in RunningIntervals
  /\ CanCall(t, au)
  /\ e \in EventsOf(t)
  /\ Deliver(World, au.onPitchDetected, << e >>)
  /\ obs' = Fired(t.kind, << e >>)
  /\ UNCHANGED <<envVars, screen, mounts, currentSequence>>

\* the settings Start saves for a training run: two notes a turn, two
\* repetitions, a budget of one or two sequences or none (0)
TrainingChoices ==
  { [ notesPerTurn        |-> 2,
      maxInterval         |-> 5,
      repetitionsRequired |-> 2,
      totalSequences      |-> n,
      volumeThreshold     |-> DefaultVolumeThreshold ] : n \in 0..2 }

\* the catalogue indices Math.random() is let to select in a training run
\* (C4, E4)
TrainingDraws == {21, 25}

InitTraining == InitProgram /\ random = TrainingDraws /\ probe = NoProbe

\* The training screen driven by the detector alone: a run is started and
\* played to its end, the Listen and Back buttons are not pressed.
\* Mechanics are the continuations of what the screen and the controller
\* have in flight.
Mechanics ==
  \/ \E t \in AllTasks, ok \in BOOLEAN, s \in generateNewSequence(settings) :
       InitAudioSettled(t, ok, s)
  \/ \E t \in AllTasks : StateDelayElapsed(t)
  \/ Continue
  \/ \E t \in AllTasks : UnloadResolved(t)
  \/ \E t \in AllTasks, ok \in {TRUE} : AudioInitSettled(t, ok)
  \/ \E t \in AllTasks, ok \in BOOLEAN : SoundSettled(t, ok)
  \/ \E t \in AllTasks : NoteGapElapsed(t)
  \/ \E t \in AllTasks : RepGapElapsed(t)
  \/ \E t \in AllTasks : FigureGapElapsed(t)
  \/ \E t \in AllTasks, s \in generateNewSequence(settings) : NextSequenceDue(t, s)
  \/ \E t \in AllTasks : DemoDue(t)
  \/ \E t \in AllTasks : FinishDue(t)

NextTraining ==
  \/ \E cfg \in TrainingChoices : PressStart(cfg)
  \/ Mechanics
  \/ \E t \in RunningIntervals : \E e \in EventsOf(t) : DetectorEvent(t, e)

SpecTraining == InitTraining /\ [][NextTraining]_vars

(* --------------- the training screen fed a given stream --------------- *)
\* what an event of a stream carries: no note (0) or a note of the table
FeedNotes == {0} \cup EventNotes

\* the streams: every sequence of MaxFeed events
FeedStreams == [1..MaxFeed -> FeedNotes]

\* a stream and the number of its events delivered so far
Feed(stream) == [fn |-> "feed", arg |-> stream, out |-> 0]

\* A tick of running interval t calls the callback with the next event of
\* the stream.
FeedEvent(t) ==
  /\ probe.fn = "feed" /\ probe.out < Len(probe.arg)
  /\ t \in RunningIntervals
  /\ CanCall(t, au)
  /\ LET i == probe.arg[probe.out + 1]
         e == Event(IF i = 0
                      THEN NoNote
                      ELSE [name |-> GUITAR_NOTES[i].name,
                            table |-> t.kind # "simulated"],
                    EventVolume)
     IN /\ Deliver(World, au.onPitchDetected, << e >>)
        /\ obs' = Fired(t.kind, << e >>)
  /\ probe' = [probe EXCEPT !.out = probe.out + 1]
  /\ UNCHANGED <<platform, webAudio, random, settings, screen, mounts,
                 currentSequence>>

\* the settings of a fed run: two notes a turn, two repetitions, a budget
\* of one or two sequences
FeedChoices == {cfg \in TrainingChoices : cfg.totalSequences > 0}

InitFeed ==
  /\ InitProgram
  /\ random = TrainingDraws
  /\ probe \in {Feed(stream) : stream \in FeedStreams}

NextFeed ==
  \/ \E cfg \in FeedChoices : PressStart(cfg)
  \/ Mechanics
  \/ \E t \in RunningIntervals : FeedEvent(t)

SpecFeed == InitFeed /\ [][NextFeed]_vars

(* ------------- the detection session sampling a given signal ---------- *)
\* lengths of the signals the session samples: one frame more than the
\* Detection Window holds for the loud signals, one more than a note needs
\* for the signals with quiet frames and for those above the table, the
\* samples a note needs for the signals the detectors disagree on
MaxSamples == 6
QuietSamples == 4
EstimateSamples == 3
UnresolvedSamples == 4
ThresholdSamples == 3

\* frames of a signal: a loud A4, a loud frame a few hertz off, a quiet
\* frame; a loud frame whose three detectors disagree and of which detector
\* k throws; a loud frame at 1100 Hz, which is in the range of the
\* detectors and more than 5% above the highest entry of the table.  The
\* fields detect, freq and name are the draws of the simulated bodies for
\* the same tick.
LoudA == Frame(20, <<440, 440, 440>>, 0, TRUE, 2640, "A4")
LoudB == Frame(20, <<446, 446, 446>>, 0, TRUE, 2634, "E4")
QuietA == Frame(5, <<440, 440, 440>>, 0, FALSE, 2640, "A4")
Disagreeing(k) == Frame(20, <<440, 446, 452>>, k, TRUE, 2640, "A4")
Above == Frame(20, <<1100, 1100, 1100>>, 0, TRUE, 2640, "A4")

\* a frame of a sustained A4 whose volume equals the default threshold
AtThreshold ==
  Frame(DefaultVolumeThreshold, <<440, 440, 440>>, 0, TRUE, 2640, "A4")

\* a signal of adequate length and high variance: 440, 500, 380, 420, 460
\* hertz at the detectors, 440 and 392 hertz in turn as the base frequency
\* of the simulated bodies
Unsteady ==
  << Frame(20, <<440, 440, 440>>, 0, TRUE, 2640, "A4"),
     Frame(20, <<500, 500, 500>>, 0, TRUE, 2352, "A4"),
     Frame(20, <<380, 380, 380>>, 0, TRUE, 2640, "A4"),
     Frame(20, <<420, 420, 420>>, 0, TRUE, 2352, "A4"),
     Frame(20, <<460, 460, 460>>, 0, TRUE, 2640, "A4") >>

Signals ==
  [1..MaxSamples -> {LoudA, LoudB}]
    \cup [1..QuietSamples -> {LoudA, QuietA}]
    \cup [1..EstimateSamples -> {Disagreeing(k) : k \in 0..3}]
    \cup [1..UnresolvedSamples -> {LoudA, Above}]
    \cup [1..ThresholdSamples -> {AtThreshold}]
    \cup {Unsteady}

\* the signal the session samples and the number of frames sampled so far
Samples(signal) == [fn |-> "samples", arg |-> signal, out |-> 0]

\* the frame as the body of an interval of the given kind reads it: the
\* enhanced body draws its volume as Math.random() * 0.2 + 0.05
FrameFor(kind, f) ==
  IF kind = "enhanced" THEN [f EXCEPT !.rms = 50 + f.rms] ELSE f

\* the interval a field of the object references fires and samples the
\* next frame of the signal
SampleField(field) ==
  /\ probe.fn = "samples" /\ probe.out < Len(probe.arg)
  /\ au[field] # NoTimer
  /\ FireField(field, FrameFor(au[field].kind, probe.arg[probe.out + 1]))
  /\ probe' = [probe EXCEPT !.out = probe.out + 1]
  /\ UNCHANGED <<platform, webAudio, random, settings>>

\* nothing of a session is left: no interval, no call in flight, no pause
Idle ==
  /\ \A field \in HandleFields : au[field] = NoTimer
  /\ leaked = EmptyBag /\ tasks = EmptyBag
  /\ ~au.isPitchDetectionPaused

InitTicks ==
  /\ InitProgram
  /\ random = Draws
  /\ probe \in {Samples(signal) : signal \in Signals}

\* the controller under a client that starts a session when none is left,
\* pauses, resumes and stops it and sets the threshold, while the intervals
\* sample the signal
NextTicks ==
  \/ Idle /\ StartCall
  \/ StopCall
  \/ Pause
  \/ Resume
  \/ \E v \in Thresholds : SetVolumeThreshold(v)
  \/ Continue
  \/ \E field \in HandleFields : SampleField(field)

SpecTicks == InitTicks /\ [][NextTicks]_vars

(* ------------------- the demonstration with failing sounds ------------ *)
\* the sounds that settled so far: for each the repetition and the position
\* of its note and whether it was played
Playback(log) == [fn |-> "playback", arg |-> log, out |-> 0]

\* SoundManager.playSound() settled: the sound was played (ok) or failed
SoundOutcome(t, ok) ==
  /\ probe.fn = "playback"
  /\ SoundSettles(t, ok)
  /\ probe' = [probe EXCEPT !.arg = Append(probe.arg, [i |-> t.i, j |-> t.j, ok |-> ok])]
  /\ UNCHANGED <<platform, webAudio, random, settings>>

\* the settings of the runs: sequences of two notes
PlaybackChoices == {cfg \in TrainingChoices : cfg.totalSequences = 0}

InitPlayback ==
  /\ InitProgram
  /\ random = TrainingDraws
  /\ probe = Playback(<< >>)

\* the training screen up to the end of its first demonstration, any of
\* whose sounds may fail
NextPlayback ==
  \/ \E cfg \in PlaybackChoices : PressStart(cfg)
  \/ \E t \in AllTasks, ok \in BOOLEAN, q \in generateNewSequence(settings) :
       InitAudioSettled(t, ok, q)
  \/ \E t \in AllTasks : StateDelayElapsed(t)
  \/ \E t \in AllTasks, o \in PermissionOutcomes : PermissionSettled(t, o)
  \/ \E t \in AllTasks, o \in MediaOutcomes : MediaSettled(t, o)
  \/ \E t \in AllTasks, ok \in {TRUE} : AudioInitSettled(t, ok)
  \/ \E t \in AllTasks, ok \in BOOLEAN : SoundOutcome(t, ok)
  \/ \E t \in AllTasks : NoteGapElapsed(t)
  \/ \E t \in AllTasks : RepGapElapsed(t)

SpecPlayback == InitPlayback /\ [][NextPlayback]_vars

(* --------------------------- the settings form ------------------------ *)
\* the decimal digits, and the value parseInt returns for no number
Digits == <<"0", "1", "2", "3", "4", "5", "6", "7", "8", "9">>
NaN == -1

DigitOf(c) ==
  IF \E d \in 1..Len(Digits) : Digits[d] = c
    THEN (CHOOSE d \in 1..Len(Digits) : Digits[d] = c) - 1
    ELSE NaN

RECURSIVE parseDigits(_, _)
parseDigits(s, acc) ==
  IF s = << >> \/ DigitOf(Head(s)) = NaN
    THEN acc
    ELSE parseDigits(Tail(s), 10 * acc + DigitOf(Head(s)))

\* parseInt(text): the number the leading digits of the text denote, NaN
\* when the text does not begin with a digit
parseInt(s) ==
  IF s = << >> \/ DigitOf(Head(s)) = NaN THEN NaN ELSE parseDigits(s, 0)

\* n.toString() of a natural number
RECURSIVE toString(_)
toString(n) ==
  IF n < 10
    THEN << Digits[n + 1] >>
    ELSE Append(toString(n \div 10), Digits[(n % 10) + 1])

\* the number inputs of the form and the bounds each hands to
\* handleNumberChange
FormFields == {"notesPerTurn", "maxInterval", "repetitionsRequired", "totalSequences"}

FieldRange ==
  [ notesPerTurn        |-> <<1, MaxNotesPerTurn>>,
    maxInterval         |-> <<1, MaxIntervalSetting>>,
    repetitionsRequired |-> <<1, 10>>,
    totalSequences      |-> <<0, 100>> ]

\* the value handleStart saves for an input that parses to nothing or to 0
FieldFallback ==
  [ notesPerTurn        |-> 1,
    maxInterval         |-> 3,
    repetitionsRequired |-> 3,
    totalSequences      |-> 0 ]

\* the local state of the form as useState initialises it from the settings
FormOf(s) == [field \in FormFields |-> toString(s[field])]

\* the texts of the form and whether the settings screen is mounted
Form(texts, mounted) ==
  [fn |-> "form", arg |-> texts, out |-> IF mounted THEN 1 ELSE 0]

\* handleNumberChange(value, setter, min, max): the text of the input after
\* the change
handleNumberChange(text, value, min, max) ==
  IF value = << >>
    THEN value
    ELSE LET numValue == parseInt(value)
         IN IF numValue # NaN /\ numValue >= min /\ numValue <= max
              THEN value
              ELSE text

\* `parseInt(text) || fallback`
parsedOr(text, fallback) ==
  IF parseInt(text) = NaN \/ parseInt(text) = 0 THEN fallback ELSE parseInt(text)

\* the settings after handleStart's updateSettings
handleStart(texts, s) ==
  [s EXCEPT
     !.notesPerTurn = parsedOr(texts.notesPerTurn, FieldFallback.notesPerTurn),
     !.maxInterval = parsedOr(texts.maxInterval, FieldFallback.maxInterval),
     !.repetitionsRequired =
        parsedOr(texts.repetitionsRequired, FieldFallback.repetitionsRequired),
     !.totalSequences = parsedOr(texts.totalSequences, FieldFallback.totalSequences)]

\* the characters typed or pasted into an input and the length of a text
TypedChars == {"5", "x"}
MaxText == 2
Texts == UNION { [1..n -> TypedChars] : n \in 0..MaxText }

\* onChangeText of one of the number inputs
ChangeText(field, value) ==
  /\ probe.fn = "form" /\ probe.out = 1
  /\ probe' = [probe EXCEPT !.arg[field] =
                 handleNumberChange(probe.arg[field], value,
                                    FieldRange[field][1], FieldRange[field][2])]
  /\ UNCHANGED <<platform, webAudio, random, settings, au, leaked, tasks, appVars, obs>>

\* Start: handleStart saves the settings and the training screen replaces
\* the settings screen
StartPressed ==
  /\ probe.fn = "form" /\ probe.out = 1
  /\ settings' = handleStart(probe.arg, settings)
  /\ probe' = [probe EXCEPT !.out = 0]
  /\ UNCHANGED <<platform, webAudio, random, au, leaked, tasks, appVars, obs>>

\* finishTraining: the settings screen mounts again, its inputs initialised
\* from the saved settings
SettingsShown ==
  /\ probe.fn = "form" /\ probe.out = 0
  /\ probe' = Form(FormOf(settings), TRUE)
  /\ UNCHANGED <<platform, webAudio, random, settings, au, leaked, tasks, appVars, obs>>

InitSettings ==
  /\ InitProgram
  /\ platform = "web" /\ webAudio
  /\ random = Draws
  /\ probe = Form(FormOf(defaultSettings), TRUE)

NextSettings ==
  \/ \E field \in FormFields, value \in Texts : ChangeText(field, value)
  \/ StartPressed
  \/ SettingsShown

SpecSettings == InitSettings /\ [][NextSettings]_vars

(* --------------- playNote and playSequence called on their own -------- *)
\* the notes a client hands to playSequence (C4, E4)
CalledNotes == <<21, 25>>

\* playNote(note) called by a client, up to its first suspension point
PlayNoteCall ==
  /\ HasSlot
  /\ LET r == playNote(World, [Task("note", 0, "call") EXCEPT
                                 !.notes = SubSeq(CalledNotes, 1, 1),
                                 !.heard = Listening(au)])
     IN /\ SetWorld(r.w)
        /\ tasks' = tasks (+) SetToBag({r.t})
  /\ obs' = NoObs
  /\ UNCHANGED <<envVars, appVars>>

\* playSequence(notes) called by a client, up to its first suspension point
PlaySequenceCall ==
  /\ HasSlot
  /\ LET r == playSequence(World, [Task("sequence", 0, "call") EXCEPT
                                     !.notes = CalledNotes,
                                     !.heard = Listening(au)])
     IN /\ SetWorld(r.w)
        /\ tasks' = tasks (+) SetToBag({r.t})
  /\ obs' = NoObs
  /\ UNCHANGED <<envVars, appVars>>

\* no call of the client is in flight
NoCallInFlight == tasks = EmptyBag

\* the controller under a client that starts a session, pauses and resumes
\* it and calls playNote and playSequence, one call at a time
NextCalls ==
  \/ Idle /\ StartCall
  \/ \E t \in AllTasks, o \in PermissionOutcomes : PermissionSettled(t, o)
  \/ \E t \in AllTasks, o \in MediaOutcomes : MediaSettled(t, o)
  \/ NoCallInFlight /\ Pause
  \/ NoCallInFlight /\ Resume
  \/ NoCallInFlight /\ PlayNoteCall
  \/ NoCallInFlight /\ PlaySequenceCall
  \/ \E t \in AllTasks, ok \in BOOLEAN : AudioInitSettled(t, ok)
  \/ \E t \in AllTasks, ok \in BOOLEAN : SoundSettled(t, ok)
  \/ \E t \in AllTasks : NoteGapElapsed(t)

SpecCalls == Init /\ [][NextCalls]_vars

(* ---------------------------- the sound cache ------------------------- *)
\* private cacheLimit = 20
cacheLimit == 20

\* the sounds played: one more than the cache holds
SoundNames == 1..(cacheLimit + 1)

\* the playSound calls of a run
MaxCalls == 6

\* soundCache: the keys of its entries from the least to the most recently
\* used (the order of their lastUsed stamps), and the number of playSound
\* calls made so far
Cache(entries) == [fn |-> "cache", arg |-> entries, out |-> 0]

Cached(c, key) == \E i \in 1..Len(c) : c[i] = key

\* soundCache[key] = {sound, lastUsed: Date.now()}, for a new key and for
\* one the cache holds
stamped(c, key) == SelectSeq(c, LAMBDA x : x # key) \o <<key>>

\* manageCacheSize(): at the limit the keys are sorted by lastUsed and those
\* at the indices below keys.length / 2 are deleted
manageCacheSize(c) ==
  IF Len(c) >= cacheLimit
    THEN SubSeq(c, ((Len(c) + 1) \div 2) + 1, Len(c))
    ELSE c

\* the sounds a call may ask for: the first one that is neither cached nor
\* being loaded, and the first sound of all while the cache holds it
Loading == { t.notes[1] : t \in { u \in BagToSet(tasks) : u.pc = "createAsync" } }

Requested ==
  LET fresh == { k \in SoundNames : ~Cached(probe.arg, k) /\ k \notin Loading }
  IN (IF fresh = {} THEN {} ELSE { CHOOSE k \in fresh : \A x \in fresh : k <= x })
       \cup (IF Cached(probe.arg, 1) THEN {1} ELSE {})

\* playSound(key) up to `await Audio.Sound.createAsync(...)`, or to its end
\* for a sound of the cache
PlaySoundCall(key) ==
  /\ probe.fn = "cache" /\ probe.out < MaxCalls
  /\ IF Cached(probe.arg, key)
       THEN /\ probe' = [probe EXCEPT !.arg = stamped(probe.arg, key),
                                      !.out = probe.out + 1]
            /\ UNCHANGED tasks
       ELSE /\ HasSlot
            /\ probe' = [probe EXCEPT !.arg = manageCacheSize(probe.arg),
                                      !.out = probe.out + 1]
            /\ tasks' = tasks (+) SetToBag({[Task("sound", 0, "createAsync")
                                               EXCEPT !.notes = <<key>>]})
  /\ UNCHANGED <<platform, webAudio, random, settings, au, leaked, appVars, obs>>

\* createAsync settled: the sound is put into the cache, or the fallback
\* sound is played when it could not be loaded
SoundCreated(t, ok) ==
  /\ probe.fn = "cache"
  /\ BagIn(t, tasks) /\ t.pc = "createAsync"
  /\ probe' = IF ok THEN [probe EXCEPT !.arg = stamped(probe.arg, t.notes[1])]
                    ELSE probe
  /\ tasks' = Remove(tasks, t)
  /\ UNCHANGED <<platform, webAudio, random, settings, au, leaked, appVars, obs>>

\* the cache after the first sounds were played one after the other, up to
\* one entry below the limit
Preloaded == [i \in 1..(cacheLimit - 1) |-> i]

InitCache ==
  /\ InitProgram
  /\ platform = "web" /\ webAudio
  /\ random = Draws
  /\ probe = Cache(Preloaded)

NextCache ==
  \/ \E key \in Requested : PlaySoundCall(key)
  \/ \E t \in AllTasks, ok \in BOOLEAN : SoundCreated(t, ok)

SpecCache == InitCache /\ [][NextCache]_vars

(* --------------------------- the sound assets ------------------------- *)
\* instrumentOptions of the settings screen
Instruments == {"synth", "guitar"}

\* the audioFile of every note of the catalogue
CatalogueFiles == { GUITAR_NOTES[i].audioFile : i \in 1..Len(GUITAR_NOTES) }

\* the file names playSound is asked for: those of the catalogue, one more
\* file of the synth folder and one no folder holds
AssetNames == CatalogueFiles \cup {"c6.mp3", "h9.mp3"}

\* the `case` labels of the switch of getSpecificSoundAsset
SynthCases == CatalogueFiles \cup {"c6.mp3"}

\* require('../assets/sounds/<instrument>/<file>')
Asset(instrument, file) == [instrument |-> instrument, file |-> file]

NoAsset == Asset("none", "none")

\* the name of every note of the catalogue
CatalogueNames == { GUITAR_NOTES[i].name : i \in 1..Len(GUITAR_NOTES) }

\* noteName.endsWith('.mp3')
endsWithMp3(noteName) == noteName \in AssetNames

\* getNoteFileName(noteName): a name that ends with '.mp3' as it is; of any
\* other name the part before the '/', in lower case, its '#' replaced by
\* '-', and '.mp3' appended, which for a name of the catalogue is the
\* audioFile of its note
getNoteFileName(noteName) ==
  IF endsWithMp3(noteName)
    THEN noteName
    ELSE LET i == CHOOSE k \in 1..Len(GUITAR_NOTES) : GUITAR_NOTES[k].name = noteName
         IN GUITAR_NOTES[i].audioFile

\* getSpecificSoundAsset(noteName): the switch is entered for the synth
\* only, and every other path ends at the fallback require
getSpecificSoundAsset(currentInstrument, noteName) ==
  LET fileName == getNoteFileName(noteName)
  IN IF currentInstrument = "synth"
       THEN IF fileName \in SynthCases
              THEN Asset("synth", fileName)
              ELSE Asset("synth", "c4.mp3")
       ELSE Asset("synth", "c4.mp3")

\* the SoundManager: currentInstrument, the name last asked for and the
\* asset resolved for it
Assets(instrument, noteName, asset) ==
  [fn |-> "asset", arg |-> <<instrument, noteName>>, out |-> asset]

\* setInstrument(instrument)
SetInstrument(instrument) ==
  /\ probe.fn = "asset"
  /\ probe' = Assets(instrument, probe.arg[2], NoAsset)
  /\ UNCHANGED <<platform, webAudio, random, settings, au, tasks, leaked,
                 appVars, obs>>

\* playSound(noteName) of a sound the cache does not hold, up to
\* `const soundAsset = this.getSpecificSoundAsset(noteName)`
ResolveAsset(noteName) ==
  /\ probe.fn = "asset"
  /\ probe' = Assets(probe.arg[1], noteName,
                     getSpecificSoundAsset(probe.arg[1], noteName))
  /\ UNCHANGED <<platform, webAudio, random, settings, au, tasks, leaked,
                 appVars, obs>>

InitAssets ==
  /\ InitProgram
  /\ platform = "web" /\ webAudio
  /\ random = Draws
  /\ probe = Assets("synth", "c4.mp3", NoAsset)

NextAssets ==
  \/ \E instrument \in Instruments : SetInstrument(instrument)
  \/ \E noteName \in AssetNames \cup CatalogueNames : ResolveAsset(noteName)

SpecAssets == InitAssets /\ [][NextAssets]_vars

(* ------------------------------- claims ------------------------------- *)
\* a demonstration or a success figure of task t is in progress: it began
\* and has not returned
Playing(t) ==
  /\ t.kind \in {"demo", "step"}
  /\ t.pc \in {"seqInit", "noteInit", "sound", "noteGap", "repGap", "figureGap"}

\* the acquisition strategy an interval belongs to: the tick installed by
\* startWebPitchDetection and the one installed by resumePitchDetection on
\* the web are both the full-spectral strategy
StrategyOf(t) == IF t.kind \in {"web", "webResume"} THEN "spectral" ELSE t.kind

\* the intervals the runtime runs: those the handles denote and those no
\* handle denotes any more
NumTimers ==
  (IF au.pitchDetectionInterval # NoTimer THEN 1 ELSE 0)
    + (IF au.mobileRecordingInterval # NoTimer THEN 1 ELSE 0)
    + BagCardinality(leaked)

\* the world after pausePitchDetection() followed at once by
\* resumePitchDetection()
PausedThenResumed == resumePitchDetection(pausePitchDetection(World))

\* C1: a demonstration or success figure that began while the session was
\* Listening has, when it returns, left the session Listening again: a
\* sampling timer is installed and the paused flag is clear.
DemonstrationEndsListening ==
  (obs.op \in {"demonstration", "figure"} /\ obs.heard) => Listening(au)

\* C2: while a demonstration or the success figure of the mounted screen is
\* in progress no sampling tick fires (and so no detection event reaches the
\* screen's callback).
MutedWhilePlaying ==
  obs.fired # "none" => ~ \E t \in AllTasks : Playing(t) /\ t.owner = screen

\* C3: the session is always Stopped, Listening or Paused: a sampling timer
\* is never installed while the paused flag is set.
SessionStateWellFormed == ~(TimerActive(au) /\ au.isPitchDetectionPaused)

\* C4: at most one sampling timer exists at any time: no interval is still
\* running once a newer one has been installed.
AtMostOneSamplingTimer == NumTimers <= 1

\* C5: pause() called while no sampling timer is installed changes no field
\* of the session, the record that a resume must restore listening included.
PauseWithoutTimerIsNoOp ==
  [][(Pause /\ ~TimerActive(au)) => (au' = au)]_vars

\* C6: from every Listening state, pause() followed by resume() leaves the
\* session sampling with the strategy it had, the same threshold and the
\* same window.
ResumeRestoresStrategy ==
  Listening(au) =>
    /\ Listening(PausedThenResumed.au)
    /\ StrategyOf(PausedThenResumed.au.pitchDetectionInterval)
         = StrategyOf(au.pitchDetectionInterval)
    /\ StrategyOf(PausedThenResumed.au.mobileRecordingInterval)
         = StrategyOf(au.mobileRecordingInterval)
    /\ PausedThenResumed.au.volumeThreshold = au.volumeThreshold
    /\ PausedThenResumed.au.detectionHistory = au.detectionHistory

\* C7: no sampling tick fires while the paused flag is set, and pause()
\* followed at once by resume() leaves a Listening session Listening.
NoTickWhilePaused ==
  /\ obs.fired # "none" => ~au.isPitchDetectionPaused
  /\ Listening(au) => Listening(PausedThenResumed.au)

\* C8: when stop() has completed no sampling timer is installed, the window
\* is empty and the audio context, the analyser, the stream source, the
\* sample buffer and the three detectors are null.
StopReleasesEverything ==
  obs.op = "stop" =>
    /\ ~TimerActive(au)
    /\ au.detectionHistory = << >>
    /\ ~au.audioContext /\ ~au.analyser /\ ~au.mediaStreamSource
    /\ ~au.recordingDataArray
    /\ ~au.pitchDetector /\ ~au.yinDetector /\ ~au.amdfDetector

\* C9: whenever start() returns it returns true and a sampling timer is
\* installed, whatever the permission request and the opening of the input
\* stream came to.
StartAlwaysSucceeds ==
  obs.op = "start" => (obs.result /\ TimerActive(au))

\* a start returned with the simulated fallback installed although the
\* build has Web Audio: permission was refused or the stream did not open
StartFellBack ==
  /\ obs.op = "start" /\ obs.result
  /\ platform = "web" /\ webAudio
  /\ au.pitchDetectionInterval.kind = "simulated"

\* C10: pause() while Listening clears the interval handles and sets the two
\* pause flags, and changes nothing else: the audio context, the analyser,
\* the buffer, the detectors, the threshold, the window and the callback
\* keep their values, and so does every interval the handles did not denote.
PauseKeepsResources ==
  [][(Pause /\ Listening(au)) =>
       /\ au' = [au EXCEPT !.pitchDetectionInterval = NoTimer,
                           !.mobileRecordingInterval = NoTimer,
                           !.isPitchDetectionPaused = TRUE,
                           !.pitchDetectionWasRunning = TRUE]
       /\ leaked' = leaked]_vars

\* pause() has just returned on a session that was sampling the microphone:
\* the timer is gone, the resources and a non-empty window are still there
PausedWithResources ==
  /\ obs.op = "pause"
  /\ au.isPitchDetectionPaused /\ ~TimerActive(au)
  /\ au.audioContext /\ au.analyser /\ au.recordingDataArray
  /\ au.detectionHistory # << >>

\* C11: resume() called when the session is not paused-while-running (the
\* paused flag or the record that a timer was running at the pause is
\* clear: never paused, or paused when nothing was running) creates no
\* timer and changes no field of the session.
ResumeWithoutRecordIsNoOp ==
  [][(Resume /\ ~(au.isPitchDetectionPaused /\ au.pitchDetectionWasRunning))
       => (au' = au /\ leaked' = leaked)]_vars

\* resume() has just returned on a session whose last pause found no timer
\* running: the paused flag of the earlier pause is still set
ResumedWithoutRecord ==
  /\ obs.op = "resume"
  /\ au.isPitchDetectionPaused /\ ~au.pitchDetectionWasRunning
  /\ ~TimerActive(au)

\* C20: for every frequency f > 0, findClosestNote(f) returns a catalogue
\* note no other catalogue note is closer to f than, and that lies within
\* 5% of its own frequency from f; it returns none only when the closest
\* catalogue note is farther from f than 5% of that note's frequency.
NearestOrNone ==
  (probe.fn = "findClosestNote" /\ probe.out # Pending /\ probe.arg[1] > 0) =>
    LET n == probe.arg[1]
        d == probe.arg[2]
        All == 1..Len(GUITAR_NOTES)
        nearest(i) == \A j \in All : Difference(n, d, i) <= Difference(n, d, j)
        within(i) == 20 * Difference(n, d, i) <= d * GUITAR_NOTES[i].frequency
    IN IF probe.out = 0
         THEN \A i \in All : nearest(i) => ~within(i)
         ELSE nearest(probe.out) /\ within(probe.out)

\* findClosestNote returned a note for a frequency that is not the
\* frequency of any catalogue note
ResolvedBetweenNotes ==
  /\ probe.fn = "findClosestNote" /\ probe.out > 0
  /\ Difference(probe.arg[1], probe.arg[2], probe.out) > 0

\* the orchestrator awaits input: the screen is mounted, its first
\* demonstration is over, the current sequence has positions left to match
\* and nothing the screen started (demonstration, success figure, scheduled
\* sequence) is in flight
AwaitingInput ==
  /\ screen # 0
  /\ ~ui.isInitializing /\ ~ui.isTrainingComplete
  /\ Len(ui.notesPlayed) < Len(ui.currentNotes)
  /\ \A t \in AllTasks : t.owner # screen

\* the name of the expected note, the one at position len(notesPlayed)
ExpectedName == GUITAR_NOTES[ui.currentNotes[Len(ui.notesPlayed) + 1]].name

\* the step delivered one event to the callback of the mounted screen
EventDelivered ==
  /\ obs'.fired # "none" /\ Len(obs'.events) = 1
  /\ au.onPitchDetected = screen

\* the step matched the expected position: one more position is matched,
\* or the pass was completed
Advanced ==
  \/ ui'.notesPlayed = Append(ui.notesPlayed, Len(ui.notesPlayed))
  \/ /\ Len(ui.notesPlayed) = Len(ui.currentNotes) - 1
     /\ ui'.correctSequencesPlayed = ui.correctSequencesPlayed + 1

\* C12: in AwaitingInput every callback event that carries a note whose name
\* is the name of the expected note advances progress by exactly one
\* position, whatever the sequence (the same note at adjacent positions
\* included) and whatever events came before.
EveryMatchAdvances ==
  [][(AwaitingInput /\ EventDelivered
        /\ obs'.events[1].note.name = ExpectedName) => Advanced]_vars

\* the training progress and what the orchestrator has in flight
Progress ==
  <<ui.notesPlayed, ui.correctSequencesPlayed, ui.currentNotes, ui.trials,
    currentSequence, tasks>>

\* C13: a callback event whose note is not the expected note of the current
\* position changes nothing of the training progress: the matched
\* positions, the repetition count, the current sequence and the sequence
\* counter keep their values and nothing is started.
MismatchChangesNothing ==
  [][(/\ EventDelivered
      /\ screen # 0
      /\ Len(ui.notesPlayed) < Len(ui.currentNotes)
      /\ obs'.events[1].note # NoNote
      /\ obs'.events[1].note.name # ExpectedName) => UNCHANGED Progress]_vars

\* a wrong note has just been delivered in the middle of a sequence: the
\* first position is matched, the screen holds a note that is not the
\* expected one, and the first position is still matched
WrongNoteMidSequence ==
  /\ screen # 0 /\ au.onPitchDetected = screen
  /\ ~ui.isInitializing
  /\ obs.fired # "none" /\ Len(obs.events) = 1
  /\ obs.events[1].note # NoNote
  /\ ui.detectedNote = obs.events[1].note
  /\ Len(ui.currentNotes) = 2 /\ ui.notesPlayed = << 0 >>
  /\ obs.events[1].note.name # ExpectedName

\* the step compared a callback event with the last position of the
\* sequence, all earlier positions being matched, and the names were equal
PassCompleted ==
  /\ EventDelivered
  /\ screen # 0 /\ ~ui.isInitializing
  /\ Len(ui.notesPlayed) = Len(ui.currentNotes) - 1
  /\ obs'.events[1].note # NoNote
  /\ obs'.events[1].note.name = ExpectedName
  /\ ui'.detectedNote = obs'.events[1].note
  /\ (ui.detectedNote # obs'.events[1].note \/ ~obs'.events[1].note.table)

\* the step made a new sequence the current one
NewSequence ==
  \E t \in AllTasks, s \in generateNewSequence(settings) : NextSequenceDue(t, s)

\* C14: while a screen is mounted, correctRepetitions goes up by one exactly
\* in the steps that match the last position after all earlier ones (and
\* changes otherwise only when a new sequence resets it); a pass that leaves
\* the count below repetitionsRequired empties the matched positions and
\* keeps the sequence; TrialComplete is entered exactly in the step that
\* completes the pass number repetitionsRequired, so once a sequence.
RepetitionCounting ==
  [][(screen # 0 /\ screen' = screen) =>
       /\ PassCompleted =>
            ui'.correctSequencesPlayed = ui.correctSequencesPlayed + 1
       /\ ui'.correctSequencesPlayed # ui.correctSequencesPlayed =>
            \/ PassCompleted
            \/ NewSequence /\ ui'.correctSequencesPlayed = 0
       /\ (PassCompleted
             /\ ui.correctSequencesPlayed + 1 < settings.repetitionsRequired) =>
            /\ ui'.notesPlayed = << >>
            /\ ui'.currentNotes = ui.currentNotes
            /\ tasks' = tasks
       /\ ui'.trials # ui.trials <=>
            /\ PassCompleted
            /\ ui.correctSequencesPlayed + 1 = settings.repetitionsRequired
       /\ ui'.trials \in {ui.trials, ui.trials + 1}]_vars

\* the sequence [C4, E4] with two repetitions required has been played
\* twice: the E4 just delivered completed the second pass and TrialComplete
\* was entered, for the first time in this run
FirstTrialCompleted ==
  /\ screen # 0
  /\ ui.currentNotes = << 21, 25 >> /\ settings.repetitionsRequired = 2
  /\ obs.fired # "none" /\ obs.events[1].note.name = "E4"
  /\ ui.notesPlayed = << 0, 1 >>
  /\ ui.correctSequencesPlayed = 2
  /\ ui.trials = 1
  /\ \E t \in AllTasks : t.kind = "step" /\ t.owner = screen

\* the first run shows the sequence [C4, E4] and the stream fed to it
\* begins with E4, C4
WrongOrderFed ==
  /\ probe.fn = "feed"
  /\ probe.arg[1] = 25 /\ probe.arg[2] = 21
  /\ mounts = 1 /\ screen = 1
  /\ ui.currentNotes = << 21, 25 >>

\* C15: with the sequence [C4, E4], feeding the events E4 then C4 never
\* takes progress past position 0: E4 matches nothing, C4 matches position
\* 0 at most, position 1 is not matched and no pass is completed.
WrongOrderNeverPastStart ==
  (WrongOrderFed /\ probe.out <= 2) =>
    /\ ui.notesPlayed \in {<< >>, << 0 >>}
    /\ probe.out <= 1 => ui.notesPlayed = << >>
    /\ ui.correctSequencesPlayed = 0
    /\ ui.trials = 0

\* E4 then C4 have been delivered to the screen showing [C4, E4]; C4 was
\* compared with position 0 and matched it
WrongOrderDelivered ==
  /\ WrongOrderFed /\ probe.out = 2
  /\ ~ui.isInitializing
  /\ ui.detectedNote.name = "C4"
  /\ ui.notesPlayed = << 0 >>

\* the step made a sequence the current one of the mounted screen: the
\* first of the run or the next after a trial
NewSequenceOnScreen ==
  \E t \in AllTasks, s \in generateNewSequence(settings) :
    /\ t.owner = screen
    /\ \/ NextSequenceDue(t, s)
       \/ \E ok \in BOOLEAN : InitAudioSettled(t, ok, s)

\* the step was a tick that handed the callback of the mounted screen an
\* event carrying the expected note
EventMatched ==
  /\ obs'.fired # "none"
  /\ au.onPitchDetected = screen
  /\ Len(ui.notesPlayed) < Len(ui.currentNotes)
  /\ \E k \in 1..Len(obs'.events) : obs'.events[k].note.name = ExpectedName

\* C16: the step that makes a new sequence current leaves the progress
\* reset (no position matched, no repetition counted), the sequence changes
\* in no other step, and from then on the progress changes only when a
\* callback event matches the expected position: no event is compared with
\* the new sequence on the progress of the old one.
ProgressResetWithSequence ==
  [][(screen # 0 /\ screen' = screen) =>
       /\ NewSequenceOnScreen =>
            (ui'.notesPlayed = << >> /\ ui'.correctSequencesPlayed = 0)
       /\ ui'.currentNotes # ui.currentNotes => NewSequenceOnScreen
       /\ (\/ ui'.notesPlayed # ui.notesPlayed
           \/ ui'.correctSequencesPlayed # ui.correctSequencesPlayed) =>
            (NewSequenceOnScreen \/ EventMatched)]_vars

\* the sequence after a completed trial has just become current: its
\* demonstration is scheduled and nothing of it is matched
NextSequenceCurrent ==
  /\ screen # 0
  /\ ui.trials > 0
  /\ \E t \in AllTasks :
       t.owner = screen /\ t.pc = "nextDemo" /\ t.notes = ui.currentNotes
  /\ ui.notesPlayed = << >> /\ ui.correctSequencesPlayed = 0

\* the success figure of the mounted screen returned in this step
FigureReturned ==
  /\ obs'.op = "figure"
  /\ \E t \in AllTasks : t.kind = "step" /\ t.pc = "figureGap" /\ t.owner = screen
  /\ ~ \E t \in BagToSet(tasks') : t.kind = "step" /\ t.pc = "figureGap"

\* C17: in a run with a finite budget of N sequences the orchestrator is
\* Finished from the N-th TrialComplete of that run on and not before, and
\* it never enters TrialComplete more than N times in the run.
FinishedOnBudget ==
  (screen # 0 /\ settings.totalSequences > 0) =>
    /\ ui.trials <= settings.totalSequences
    /\ ui.isTrainingComplete => ui.trials = settings.totalSequences

\* C18: with totalSequences = 0 the orchestrator is never Finished: no step
\* sets the completion flag or schedules the end of the run, and the step
\* in which the success figure of a trial returns increments the sequence
\* counter by one and schedules the generation of the next sequence.
UnboundedNeverFinishes ==
  [][(settings' = settings /\ settings.totalSequences = 0) =>
       /\ ~ui'.isTrainingComplete
       /\ \A t \in BagToSet(tasks') : t.pc # "finish"
       /\ FigureReturned =>
            /\ currentSequence' = currentSequence + 1
            /\ \E t \in BagToSet(tasks') :
                 t.kind = "step" /\ t.pc = "nextSequence" /\ t.owner = screen]_vars

\* a trial of a run without budget has just ended: the figure returned,
\* the counter went up and the next sequence is scheduled
NextScheduledWithoutBudget ==
  /\ settings.totalSequences = 0
  /\ screen # 0 /\ ui.trials = 1
  /\ obs.op = "figure"
  /\ currentSequence = 2
  /\ \E t \in AllTasks : t.pc = "nextSequence" /\ t.owner = screen

\* the run of the screen has ended with the training complete: the caller's
\* cleanup has run to its end and the screen is gone
RunEnded ==
  /\ screen = 0 /\ ui.isTrainingComplete
  /\ \A t \in AllTasks : t.kind # "cleanup" /\ t.pc # "finish"

\* the progress of the training: what the player has matched and what is asked
TrainingProgress ==
  <<ui.notesPlayed, ui.correctSequencesPlayed, ui.currentNotes, ui.trials>>

\* C19: Finished is terminal for the run: once the orchestrator is Finished
\* it stays Finished, no further sequence is generated and no detection
\* event changes the training progress, and when the run has ended with the
\* caller's cleanup the detection session is Stopped: no sampling timer is
\* running and the session is not paused.
FinishedIsTerminal ==
  /\ [][(screen # 0 /\ ui.isTrainingComplete /\ screen' = screen) =>
          /\ ui'.isTrainingComplete
          /\ TrainingProgress' = TrainingProgress]_vars
  /\ [](RunEnded => (NumTimers = 0 /\ ~au.isPitchDetectionPaused))

\* C21: findClosestNote returns none for the frequency 0 and for every
\* negative frequency.
NoneForNonPositive ==
  (probe.fn = "findClosestNote" /\ probe.out # Pending /\ probe.arg[1] <= 0) =>
    probe.out = 0

\* findClosestNote has returned for the negative of the frequency of A4
ReturnedForNegative ==
  /\ probe.fn = "findClosestNote" /\ probe.out # Pending
  /\ probe.arg = <<-440, 1>>

\* C22: every sequence generateNewSequence returns has a length of exactly
\* the configured notes per turn, for every value of notes per turn the
\* settings can hold (1..5).
LengthIsNotesPerTurn ==
  (probe.fn = "generateNewSequence" /\ probe.out # NoSequence) =>
    Len(probe.out) = probe.arg[1]

\* a sequence of the longest length of the settings was generated
LongestSequenceGenerated ==
  /\ probe.fn = "generateNewSequence" /\ probe.out # NoSequence
  /\ probe.arg[1] = MaxNotesPerTurn
  /\ Len(probe.out) = MaxNotesPerTurn

\* the indices within maxInterval of ref, clamped to the table
IndexRange(ref, maxInterval) ==
  {i \in 1..Len(GUITAR_NOTES) : Abs(i - ref) <= maxInterval}

\* C23: in every generated sequence each two adjacent notes are at most
\* maxInterval catalogue indices apart; getRandomNoteWithinInterval(reference,
\* M) can return exactly the notes whose index lies in [referenceIndex - M,
\* referenceIndex + M] clamped to the table, and no note outside that range.
AdjacentWithinInterval ==
  /\ probe.fn = "generateNewSequence" /\ probe.out # NoSequence =>
       \A k \in 1..(Len(probe.out) - 1) :
         Abs(probe.out[k + 1] - probe.out[k]) <= probe.arg[2]
  /\ probe.fn = "getRandomNoteWithinInterval" =>
       /\ getRandomNoteWithinInterval(probe.arg[1], probe.arg[2])
            = IndexRange(probe.arg[1], probe.arg[2])
       /\ probe.out # Pending => probe.out \in IndexRange(probe.arg[1], probe.arg[2])

\* a sequence was generated with two adjacent notes as far apart as the
\* widest interval of the settings lets them be
FarthestNeighbourDrawn ==
  /\ probe.fn = "generateNewSequence" /\ probe.out # NoSequence
  /\ probe.arg[2] = MaxIntervalSetting
  /\ \E k \in 1..(Len(probe.out) - 1) :
       Abs(probe.out[k + 1] - probe.out[k]) = MaxIntervalSetting

\* the step is a tick that sampled the next frame of the signal
Sampled == probe.fn = "samples" /\ probe'.out = probe.out + 1

\* the frame the tick of the step sampled, as its body read it
SampledFrame == FrameFor(obs'.fired, probe.arg[probe.out + 1])

\* the sample a tick pushes for a frame none of whose detectors throws: the
\* mean of the three readings on the web, the simulated frequency on the
\* mobile builds (in sixths of a hertz)
SampleOf(kind, f) ==
  IF kind \in {"web", "webResume"}
    THEN 2 * (f.p[1] + f.p[2] + f.p[3])
    ELSE f.freq

\* C24: the Detection Window never holds more than historySize samples,
\* under every acquisition strategy and across pause and resume; a push at
\* capacity evicts the oldest sample and keeps the others in arrival order,
\* the new sample last.
WindowBoundedFifo ==
  /\ [](Len(au.detectionHistory) <= historySize)
  /\ [][(/\ Sampled
         /\ Len(au.detectionHistory) = historySize
         /\ au'.detectionHistory # << >>
         /\ SampledFrame.rms > au.volumeThreshold
         /\ SampledFrame.detect) =>
          /\ Len(au'.detectionHistory) = historySize
          /\ SubSeq(au'.detectionHistory, 1, historySize - 1)
               = SubSeq(au.detectionHistory, 2, historySize)
          /\ au'.detectionHistory[historySize]
               = SampleOf(obs'.fired, SampledFrame)]_vars

\* the sixth frame of a signal was sampled and the window holds the samples
\* of its second to sixth frames, two different samples among them
OldestEvicted ==
  /\ probe.fn = "samples" /\ probe.out = MaxSamples
  /\ obs.fired \in {"web", "webResume", "native", "enhanced"}
  /\ Len(au.detectionHistory) = historySize
  /\ \A k \in 1..historySize :
       au.detectionHistory[k] = SampleOf(obs.fired, probe.arg[k + 1])
  /\ au.detectionHistory[1] # au.detectionHistory[historySize]
  /\ probe.arg[1] # probe.arg[2]

\* the interval whose body ran in the step
SampledInterval ==
  CHOOSE t \in RunningIntervals : t.kind = obs'.fired

\* the volume the tick of the step reports: the RMS it read or drew, and in
\* the simulated body with a note the threshold plus the draw
SampledVolume ==
  IF obs'.fired = "simulated" /\ SampledFrame.detect
    THEN au.volumeThreshold + SampledFrame.rms
    ELSE SampledFrame.rms

\* the step is a sampling tick: the body of an interval ran on a frame and
\* got past the checks it makes before it samples
SamplingTick == Sampled /\ CanCall(SampledInterval, au)

\* C25: on every sampling tick whose volume is below the configured
\* threshold the tick emits (none, volume) and the Detection Window is empty
\* afterwards, whatever it held before, for the ticks of a session started
\* by start() and for those of a session restarted by resume().
QuietTickClearsWindow ==
  [][(SamplingTick /\ SampledVolume < au.volumeThreshold) =>
       /\ obs'.events = << Event(NoNote, SampledVolume) >>
       /\ au'.detectionHistory = << >>]_vars

\* the tick of the step handed a note to the callback
NoteEmitted == \E k \in 1..Len(obs'.events) : obs'.events[k].note # NoNote

\* C26: a tick emits a note only when the Detection Window then holds at
\* least 3 samples and their variance is below 5; a window of adequate
\* length and high variance emits none.  This holds under every acquisition
\* strategy.
NoteOnlyWhenStable ==
  [][(SamplingTick /\ NoteEmitted) =>
       /\ Len(au'.detectionHistory) >= 3
       /\ varianceBelow(au'.detectionHistory, 5)]_vars

\* C27: every sampling tick delivers a callback event carrying that tick's
\* volume, whether or not a note is locked; a tick whose window is stable
\* and whose mean frequency resolves to no note of the catalogue delivers
\* (none, volume).
EveryTickReportsVolume ==
  [][SamplingTick =>
       /\ obs'.events # << >>
       /\ \A k \in 1..Len(obs'.events) : obs'.events[k].volume = SampledVolume
       /\ (/\ Len(au'.detectionHistory) >= 3
           /\ varianceBelow(au'.detectionHistory, 5)
           /\ au'.detectionHistory # au.detectionHistory
           /\ closestToAverage(au'.detectionHistory) = 0)
            => obs'.events[Len(obs'.events)] = Event(NoNote, SampledVolume)]_vars

\* the readings of a frame that lie in the range of the detectors, the
\* reading of the detector that throws left out
ReadingsBut(f) ==
  SelectSeq([k \in 1..3 |-> IF k = f.throwAt THEN 0 ELSE f.p[k]],
            LAMBDA x : x > minFrequency /\ x < maxFrequency)

\* C28: when one of the three frequency-estimation algorithms throws during
\* a tick only its result is excluded: the results of the other two are
\* still computed and averaged for that tick, whichever of the three
\* throws, and the cadence goes on.
OnlyFailedAlgorithmExcluded ==
  [][(/\ SamplingTick
      /\ obs'.fired \in {"web", "webResume"}
      /\ SampledFrame.throwAt # 0
      /\ SampledFrame.rms > au.volumeThreshold) =>
       /\ au'.detectionHistory =
            pushHistory(au.detectionHistory,
                        (6 * SumSeq(ReadingsBut(SampledFrame)))
                          \div Len(ReadingsBut(SampledFrame)))
       /\ au'.pitchDetectionInterval = au.pitchDetectionInterval]_vars

\* C29: playback is never overlapped: at no time are two note playbacks in
\* flight at once (two calls of playNote awaiting the sound they started),
\* under any interleaving of the initial demonstration, the listen-again
\* button, the success figure and the scheduled demonstration of the next
\* sequence.
PlaybackNeverOverlapped ==
  \A t, u \in AllTasks :
    (t.pc = "sound" /\ u.pc = "sound") => (t = u /\ CopiesIn(t, tasks) = 1)

\* C30: a playback failure of a note is skipped and not propagated: playNote
\* and playSequence never raise to their caller, and when a note of a
\* sequence fails the remaining notes of the sequence are still played in
\* order.  The sounds of a demonstration settle in the order of its
\* repetitions and positions whichever of them fail, and the demonstration
\* returns after the last of them.
FailedNoteSkipped ==
  probe.fn = "playback" =>
    LET n == settings.notesPerTurn
    IN /\ \A k \in 1..Len(probe.arg) :
            /\ probe.arg[k].i = (k - 1) \div n
            /\ probe.arg[k].j = (k - 1) % n
       /\ obs.op = "demonstration" => Len(probe.arg) = DemoRepetitions * n

\* a demonstration returned whose first sound failed and whose second was
\* played
PlayedAfterFailure ==
  /\ probe.fn = "playback" /\ obs.op = "demonstration"
  /\ Len(probe.arg) = DemoRepetitions * settings.notesPerTurn
  /\ ~probe.arg[1].ok /\ probe.arg[2].ok

\* C31: under every acquisition strategy a callback event carries a note
\* only if the volume it reports exceeds the volume threshold in force at
\* that tick, the value of the most recent setVolumeThreshold call.
NoteOnlyAboveThreshold ==
  [][Sampled =>
       \A k \in 1..Len(obs'.events) :
         obs'.events[k].note # NoNote =>
           obs'.events[k].volume > au.volumeThreshold]_vars

\* C32: on the web the tick installed by resumePitchDetection is equivalent
\* to the tick installed by startPitchDetection: fed the frame, the
\* threshold and the window of a tick of either, both deliver the same
\* callback events and leave the Detection Window in the same state, frames
\* below the threshold and frames at the threshold included.
ResumeTickEquivalent ==
  [][(Sampled /\ obs'.fired \in {"web", "webResume"}) =>
       LET started == webTick(au, SampledFrame)
           resumed == webResumeTick(au, SampledFrame)
       IN /\ obs'.events \in {started.events, resumed.events}
          /\ started.events = resumed.events
          /\ started.au.detectionHistory = resumed.au.detectionHistory]_vars

\* C33: when a demonstration is triggered while another demonstration or
\* the success figure is still in progress, overlapping pairs of pause and
\* resume never leave the session paused: once a playback of the first run
\* has returned and no playback is in flight any more, with the screen still
\* shown, the paused flag is clear.
OverlapNeverLeavesPaused ==
  (/\ obs.op \in {"demonstration", "figure"}
   /\ screen # 0 /\ mounts = 1
   /\ \A t \in AllTasks : ~Playing(t)) =>
    ~au.isPitchDetectionPaused

\* C34: once stopPitchDetection has completed no sampling tick fires and no
\* sampling timer is created until the next startPitchDetection: in the
\* step that follows the return of a stop which left no interval, whatever
\* that step is (a resume issued after the stop, the settling of a start
\* that was in flight when the stop ran), no interval is installed and no
\* tick body runs.
StoppedUntilNextStart ==
  [][(obs.op = "stop" /\ NumTimers = 0) =>
       (NumTimers' = 0 /\ obs'.fired = "none")]_vars

\* C35: after any sequence of edits to the inputs of the settings form
\* followed by Start the saved settings lie in their ranges (notesPerTurn in
\* 1..5, maxInterval in 1..12, repetitionsRequired in 1..10, totalSequences
\* in 0..100), and an input left empty is saved as its default.
SavedSettingsInRange ==
  (probe.fn = "form" /\ probe.out = 0) =>
    \A field \in FormFields :
      /\ settings[field] >= FieldRange[field][1]
      /\ settings[field] <= FieldRange[field][2]
      /\ probe.arg[field] = << >> => settings[field] = defaultSettings[field]

\* C36: every training run starts with the sequence counter at 1: when the
\* training screen mounts, after an earlier run of the same app session or
\* not, the counter it reads is 1.
RunStartsAtSequenceOne ==
  [][(screen = 0 /\ screen' # 0) => currentSequence' = 1]_vars

\* C37: after the training screen has been left (its cleanup has run to its
\* end) no new demonstration begins and no new sequence is generated for
\* it: the 2 s timeout of a completed trial and the 200 ms timeout before
\* the demonstration, left pending by a screen that is not shown any more,
\* generate nothing and start no playback.
NothingStartsAfterLeaving ==
  [][\A t \in AllTasks :
       (/\ t.owner # 0 /\ t.owner # screen
        /\ \A c \in AllTasks : c.kind # "cleanup") =>
         /\ ~DemoDue(t)
         /\ \A s \in generateNewSequence(settings) : ~NextSequenceDue(t, s)]_vars

\* the fields of the object that make the state of the session
SessionFields(a) ==
  <<a.pitchDetectionInterval, a.mobileRecordingInterval,
    a.isPitchDetectionPaused, a.pitchDetectionWasRunning>>

\* a playNote or playSequence of the client is in flight before or after the
\* step, called when the session was not Listening
PlayingUnheard ==
  \E t \in BagToSet(tasks) \cup BagToSet(tasks') :
    t.kind \in {"note", "sequence"} /\ ~t.heard

\* C38: playNote and playSequence restore the detection state they found:
\* called while the session is paused by an enclosing caller no step of
\* theirs resumes or pauses it again, and called while the session is
\* Listening they leave it Listening when they return, whether the sounds
\* were played or failed.
PlaybackRestoresDetection ==
  /\ []((obs.op \in {"note", "sequence"} /\ obs.heard) => Listening(au))
  /\ [][(au.isPitchDetectionPaused /\ PlayingUnheard) =>
          SessionFields(au') = SessionFields(au)]_vars

\* C39: the sound cache never holds more than cacheLimit entries after any
\* sequence of playSound calls, calls that overlap while a sound is loading
\* included, and when the limit is reached the entries evicted are the least
\* recently used ones.
CacheBoundedLru ==
  /\ [](probe.fn = "cache" => Len(probe.arg) <= cacheLimit)
  /\ [][(probe.fn = "cache" /\ Len(probe'.arg) < Len(probe.arg)) =>
          probe'.arg = SubSeq(probe.arg, Len(probe.arg) - Len(probe'.arg) + 1,
                              Len(probe.arg))]_vars

\* C40: for every note of the catalogue and every selectable instrument the
\* asset resolved for playback is that note's own file of that instrument;
\* the fallback c4.mp3 is resolved only for a file name outside the catalogue
\* (or for c4.mp3 itself).
OwnSampleResolved ==
  (probe.fn = "asset" /\ probe.out # NoAsset) =>
    LET fileName == getNoteFileName(probe.arg[2])
    IN /\ fileName \in CatalogueFiles =>
            probe.out = Asset(probe.arg[1], fileName)
       /\ probe.out.file = "c4.mp3" =>
            (fileName \notin CatalogueFiles \/ fileName = "c4.mp3")

====
